---------------------------- MODULE Spec2Model ----------------------------
(***************************************************************************)
(* A model of poefixer: the stash/item store written by PoeDb and the      *)
(* currency post-processor (CurrencyPostprocessor) that derives the sale   *)
(* and currency_summary tables from it.                                    *)
(*                                                                         *)
(* Numbers.  Python floats are modelled as exact rationals <<n, d>> in     *)
(* lowest terms with d > 0; rounding error is outside the model.  A        *)
(* standard deviation is kept as its square (the variance), and every      *)
(* comparison the code makes on a standard deviation is made on squares.   *)
(* Intermediate sums of the statistics are computed on natural numbers of  *)
(* unbounded size (little-endian digit sequences, "Big") so that the       *)
(* checker's 32-bit integers never overflow.                               *)
(*                                                                         *)
(* Optional values.  Python None is the empty tuple <<>>; a present value  *)
(* v of an optional field is <<v>> (a rational <<n, d>> is its own         *)
(* presence).                                                              *)
(***************************************************************************)
EXTENDS Integers, Sequences, FiniteSets, TLC

None == <<>>

Some(v) == <<v>>

IsNone(x) == x = <<>>

TheVal(x) == x[1]

Max(a, b) == IF a >= b THEN a ELSE b

Min(a, b) == IF a <= b THEN a ELSE b

Abs(a) == IF a < 0 THEN 0 - a ELSE a

RECURSIVE GCD(_, _)
GCD(a, b) == IF b = 0 THEN a ELSE GCD(b, a % b)

LCM(a, b) == (a \div GCD(a, b)) * b

(***************************************************************************)
(* Rationals: Python float values.                                         *)
(***************************************************************************)
Rat(n, d) ==
    LET g == GCD(Abs(n), d)
    IN  IF n = 0 THEN <<0, 1>> ELSE <<n \div g, d \div g>>

RatMul(x, y) ==
    LET g1 == GCD(Abs(x[1]), y[2])
        g2 == GCD(Abs(y[1]), x[2])
    IN  Rat((x[1] \div g1) * (y[1] \div g2), (x[2] \div g2) * (y[2] \div g1))

RatInv(x) == IF x[1] < 0 THEN <<0 - x[2], 0 - x[1]>> ELSE <<x[2], x[1]>>

RatAdd(x, y) ==
    LET l == LCM(x[2], y[2])
    IN  Rat(x[1] * (l \div x[2]) + y[1] * (l \div y[2]), l)

RatLess(x, y) == x[1] * y[2] < y[1] * x[2]

RatLeq(x, y) == x[1] * y[2] <= y[1] * x[2]

RatMin(x, y) == IF RatLeq(x, y) THEN x ELSE y

RatIsZero(x) == x[1] = 0

(***************************************************************************)
(* Big: natural numbers of unbounded size, little-endian digits in base    *)
(* BigBase, no leading zero digit (zero is the empty sequence).            *)
(***************************************************************************)
BigBase == 100 * 100

RECURSIVE BigOf(_)
BigOf(n) == IF n = 0 THEN <<>> ELSE <<n % BigBase>> \o BigOf(n \div BigBase)

RECURSIVE BigAddC(_, _, _)
BigAddC(a, b, c) ==
    IF a = <<>> /\ b = <<>>
    THEN IF c = 0 THEN <<>> ELSE <<c>>
    ELSE LET x == IF a = <<>> THEN 0 ELSE Head(a)
             y == IF b = <<>> THEN 0 ELSE Head(b)
             s == x + y + c
         IN  <<s % BigBase>>
             \o BigAddC(IF a = <<>> THEN <<>> ELSE Tail(a),
                        IF b = <<>> THEN <<>> ELSE Tail(b),
                        s \div BigBase)

BigAdd(a, b) == BigAddC(a, b, 0)

RECURSIVE BigMulDigit(_, _, _)
BigMulDigit(a, k, c) ==
    IF a = <<>>
    THEN IF c = 0 THEN <<>> ELSE <<c>>
    ELSE LET s == Head(a) * k + c
         IN  <<s % BigBase>> \o BigMulDigit(Tail(a), k, s \div BigBase)

RECURSIVE BigMul(_, _)
BigMul(a, b) ==
    IF a = <<>> \/ b = <<>>
    THEN <<>>
    ELSE LET rest == BigMul(a, Tail(b))
             low  == IF Head(b) = 0 THEN <<>> ELSE BigMulDigit(a, Head(b), 0)
         IN  BigAdd(low, IF rest = <<>> THEN <<>> ELSE <<0>> \o rest)

RECURSIVE BigLeqFrom(_, _, _)
BigLeqFrom(a, b, i) ==
    IF i = 0 THEN TRUE
    ELSE IF a[i] # b[i] THEN a[i] < b[i]
    ELSE BigLeqFrom(a, b, i - 1)

BigLeq(a, b) ==
    IF Len(a) # Len(b) THEN Len(a) < Len(b) ELSE BigLeqFrom(a, b, Len(a))

BigLess(a, b) == ~BigLeq(b, a)

RECURSIVE BigToInt(_)
BigToInt(a) == IF a = <<>> THEN 0 ELSE Head(a) + BigBase * BigToInt(Tail(a))

BigSq(n) == BigMul(BigOf(Abs(n)), BigOf(Abs(n)))


(***************************************************************************)
(* Notes.  A note (an item's note or a stash's display name) is free text. *)
(* The model keeps of a text exactly what the code asks of it:             *)
(*   kind    "none" (None), "empty" ("") or "text" (a non-empty string);   *)
(*   tilde   whether it starts with '~';                                   *)
(*   match   whether PRICE_RE finds a price tag in it;                     *)
(*   frac    whether the matched amount contains '/';                      *)
(*   numeric whether float() accepts the amount's part(s);                 *)
(*   num, den the amount (den = 1 when frac is FALSE);                     *)
(*   cur     the currency token PRICE_RE captures;                         *)
(*   spaced  the currency token PRICE_WITH_SPACE_RE captures.              *)
(***************************************************************************)
NoNote ==
    [kind |-> "none", tilde |-> FALSE, match |-> FALSE, frac |-> FALSE,
     numeric |-> TRUE, num |-> 0, den |-> 1, cur |-> "", spaced |-> ""]

EmptyNote == [NoNote EXCEPT !.kind = "empty"]

\* A non-empty text without '~' and without a price tag, such as "Goodies".
PlainNote == [NoNote EXCEPT !.kind = "text"]

\* "~price <num> <cur>" or, with den # 1, "~price <num>/<den> <cur>", for a
\* currency token without blanks; "~b/o ..." likewise, the code capturing the
\* sale type without looking at it.
PriceNote(n, d, c) ==
    [kind |-> "text", tilde |-> TRUE, match |-> TRUE, frac |-> d # 1,
     numeric |-> TRUE, num |-> n, den |-> d, cur |-> c, spaced |-> c]

\* "~price <amount> <cur>" with an amount float() does not accept.
BadAmountNote(c) == [PriceNote(0, 1, c) EXCEPT !.numeric = FALSE]

Truthy(note) == note.kind = "text"

(***************************************************************************)
(* Currency names and the alias tables.                                    *)
(***************************************************************************)
CHAOS == "Chaos Orb"

EXALTED == "Exalted Orb"

CHROMATIC == "Chromatic Orb"

OFFICIAL_CURRENCIES ==
    ("alch" :> "Orb of Alchemy") @@ ("alt" :> "Orb of Alteration")
    @@ ("blessed" :> "Blessed Orb") @@ ("chance" :> "Orb of Chance")
    @@ ("chaos" :> CHAOS) @@ ("chisel" :> "Cartographer's Chisel")
    @@ ("chrom" :> CHROMATIC) @@ ("divine" :> "Divine Orb")
    @@ ("exa" :> EXALTED) @@ ("fuse" :> "Orb of Fusing")
    @@ ("gcp" :> "Gemcutter's Prism") @@ ("jew" :> "Jeweller's Orb")
    @@ ("regal" :> "Regal Orb") @@ ("regret" :> "Orb of Regret")
    @@ ("scour" :> "Orb of Scouring") @@ ("vaal" :> "Vaal Orb")

UNOFFICIAL_CURRENCIES == ("exalt" :> EXALTED)

\* Names no static table knows: the one of tests/test_summary.py, and one
\* whose first word is a static abbreviation.
PRECIOUS == "My Precious"

SHARD == "Chaos Shard"

\* str.lower() on the strings of the model.
Lower(s) ==
    CASE s = CHAOS -> "chaos orb"
      [] s = EXALTED -> "exalted orb"
      [] s = CHROMATIC -> "chromatic orb"
      [] s = PRECIOUS -> "my precious"
      [] s = SHARD -> "chaos shard"
      [] s = "Chaos" -> "chaos"
      [] s = "Exalted" -> "exalted"
      [] s = "Chromatic" -> "chromatic"
      [] s = "My" -> "my"
      [] OTHER -> s

\* name.replace(' ', '-')
dashed(s) ==
    CASE s = "chaos orb" -> "chaos-orb"
      [] s = "exalted orb" -> "exalted-orb"
      [] s = "chromatic orb" -> "chromatic-orb"
      [] s = "my precious" -> "my-precious"
      [] s = "chaos shard" -> "chaos-shard"
      [] OTHER -> s

\* The (\w+) of PRICE_RE on a text the currency token begins: its first word.
FirstWord(s) ==
    CASE s = CHAOS -> "Chaos"
      [] s = EXALTED -> "Exalted"
      [] s = CHROMATIC -> "Chromatic"
      [] s = PRECIOUS -> "My"
      [] s = SHARD -> "Chaos"
      [] OTHER -> s

\* "~price <num> <text>" for a text of several words: PRICE_RE captures its
\* first word, PRICE_WITH_SPACE_RE the text.
WordsNote(n, d, text) ==
    [PriceNote(n, d, text) EXCEPT !.cur = FirstWord(text)]

\* dashed(name).replace("'", "")
dashed_clean(s) == dashed(s)

\* dict(pairs): a later pair of the same key replaces an earlier one.
RECURSIVE DictOf(_)
DictOf(pairs) ==
    IF pairs = <<>> THEN <<>>
    ELSE LET rest == DictOf(Tail(pairs))
             k    == Head(pairs)[1]
         IN  IF \E q \in 1..Len(Tail(pairs)) : Tail(pairs)[q][1] = k
             THEN rest
             ELSE (k :> Head(pairs)[2]) @@ rest

RECURSIVE SetToSeq(_)
SetToSeq(S) ==
    IF S = {} THEN <<>>
    ELSE LET x == CHOOSE y \in S : TRUE IN <<x>> \o SetToSeq(S \ {x})

\* get_actual_currencies: the alias map built from the from_currency values of
\* currency_summary.
get_actual_currencies(summary) ==
    LET full_names == SetToSeq({r.from_currency : r \in summary})
        n == Len(full_names)
        low == [i \in 1..n |-> <<Lower(full_names[i]), full_names[i]>>]
        dsh == [i \in 1..n |-> <<dashed(Lower(full_names[i])), full_names[i]>>]
        cln == [i \in 1..n |->
                   <<dashed_clean(Lower(full_names[i])), full_names[i]>>]
    IN  DictOf(low \o dsh \o cln)

(***************************************************************************)
(* parse_note.  The result is [amt, cur, raised]: (amt, cur) is the pair   *)
(* the code returns ((None, None) as amt = None, cur = None), raised says  *)
(* that an exception left the function instead.                            *)
(***************************************************************************)
NoPrice == [amt |-> None, cur |-> None, raised |-> FALSE]

\* Lookup without the unofficial table.
LookupOfficial(aliases, token) ==
    LET low_cur == Lower(token)
    IN  IF low_cur \in DOMAIN OFFICIAL_CURRENCIES
        THEN Some(OFFICIAL_CURRENCIES[low_cur])
        ELSE IF low_cur \in DOMAIN aliases
        THEN Some(aliases[low_cur])
        ELSE None

Lookup(aliases, token) ==
    LET low_cur == Lower(token)
    IN  IF low_cur \in DOMAIN OFFICIAL_CURRENCIES
        THEN Some(OFFICIAL_CURRENCIES[low_cur])
        ELSE IF low_cur \in DOMAIN UNOFFICIAL_CURRENCIES
        THEN Some(UNOFFICIAL_CURRENCIES[low_cur])
        ELSE IF low_cur \in DOMAIN aliases
        THEN Some(aliases[low_cur])
        ELSE None

\* parse_note taking the numerator of a fraction for the amount.
parse_note_whole(note, aliases) ==
    IF note.kind = "none" \/ ~note.match THEN NoPrice
    ELSE IF ~note.numeric THEN NoPrice
    ELSE LET amt    == Rat(note.num, 1)
             first  == Lookup(aliases, note.cur)
             second == Lookup(aliases, note.spaced)
         IN  IF ~IsNone(first)
             THEN [amt |-> amt, cur |-> first, raised |-> FALSE]
             ELSE IF note.cur = "" THEN NoPrice
             ELSE IF ~IsNone(second)
             THEN [amt |-> amt, cur |-> second, raised |-> FALSE]
             ELSE NoPrice

parse_note(note, aliases) ==
    IF note.kind = "none" \/ ~note.match THEN NoPrice
    ELSE IF ~note.numeric THEN NoPrice            \* float() raised ValueError
    ELSE IF note.frac /\ note.den = 0             \* ZeroDivisionError
    THEN [amt |-> None, cur |-> None, raised |-> TRUE]
    ELSE LET amt    == Rat(note.num, note.den)
             first  == Lookup(aliases, note.cur)
             second == Lookup(aliases, note.spaced)
         IN  IF ~IsNone(first)
             THEN [amt |-> amt, cur |-> first, raised |-> FALSE]
             ELSE IF note.cur = "" THEN NoPrice
             ELSE IF ~IsNone(second)              \* retry, PRICE_WITH_SPACE_RE
             THEN [amt |-> amt, cur |-> second, raised |-> FALSE]
             ELSE NoPrice

(***************************************************************************)
(* The tables.  Every table is a sequence of rows in insertion order; a    *)
(* row's primary key id is its position.                                   *)
(*   stash row  [api_id, stash, public, created_at, updated_at]            *)
(*   item row   [api_id, stash_id, typeLine, name, category, league, note, *)
(*               active, created_at, updated_at]                           *)
(*              category is TRUE when 'currency' is a key of the item's    *)
(*              category                                                   *)
(*   sale row   [item_id, item_api_id, name, is_currency, sale_currency,   *)
(*               sale_amount, sale_amount_chaos, item_updated_at,          *)
(*               created_at, updated_at]                                   *)
(* currency_summary is a set of rows                                       *)
(*              [from_currency, to_currency, league, count, mean,          *)
(*               standard_dev, weight, created_at, updated_at]             *)
(* where standard_dev holds the square of the stored standard deviation.   *)
(***************************************************************************)

\* Cutoff for considering "old" data: timedelta(days=15) in seconds.
relevant == 1296000

\* timedelta(hours=12) in seconds.
weight_increment == 43200

RECURSIVE SumSeq(_)
SumSeq(q) == IF q = <<>> THEN 0 ELSE Head(q) + SumSeq(Tail(q))

RECURSIVE BigSumSeq(_)
BigSumSeq(q) == IF q = <<>> THEN <<>> ELSE BigAdd(Head(q), BigSumSeq(Tail(q)))

RECURSIVE LcmSeq(_)
LcmSeq(q) == IF q = <<>> THEN 1 ELSE LCM(Head(q), LcmSeq(Tail(q)))

(***************************************************************************)
(* calc_mean_std(values, weights), on integer values and integer weights:  *)
(* the weighted mean is S / W and the weighted variance V / W^3, with      *)
(*   W = sum of weights, S = sum of weight * value,                        *)
(*   V = sum of weight * (value * W - S)^2.                                *)
(***************************************************************************)
calc_mean_std(values, weights) ==
    LET n == Len(values)
        W == SumSeq(weights)
        S == SumSeq([i \in 1..n |-> weights[i] * values[i]])
        V == BigSumSeq([i \in 1..n |->
                 BigMul(BigOf(weights[i]), BigSq(values[i] * W - S))])
    IN  [W |-> W, S |-> S, V |-> V]

\* stddev > mean / 2, for a stddev >= 0: mean < 0, or 4 * variance > mean^2.
LargeStddev(ms) ==
    \/ ms.S < 0
    \/ BigLess(BigMul(BigSq(ms.S), BigOf(ms.W)), BigMul(BigOf(4), ms.V))

\* PriceOk keeping the values at the mean alone: abs(value - mean) <= 0
PriceAtMean(ms, value) == value * ms.W = ms.S

\* abs(value - mean) <= stddev * 2
PriceOk(ms, value) ==
    BigLeq(BigMul(BigSq(value * ms.W - ms.S), BigOf(ms.W)),
           BigMul(BigOf(4), ms.V))

NoStats ==
    [mean |-> None, stddev |-> None, weight |-> None, count |-> None,
     used |-> {}, raised |-> FALSE]

\* The rows _get_mean_and_std selects: the sales of the bucket inside the
\* relevance window, as [price, dt, item_id] with dt = max(1, sale_time - t).
BucketSamples(sale, item, clock, name, currency, league, sale_time) ==
    LET hit(s) == /\ s.name = name
                  /\ item[s.item_id].league = league
                  /\ s.sale_currency = currency
                  /\ s.item_updated_at > clock - relevant
        rows == SelectSeq(sale, hit)
    IN  [i \in 1..Len(rows) |->
            [price |-> rows[i].sale_amount,
             dt    |-> Max(1, sale_time - rows[i].item_updated_at),
             item_id |-> rows[i].item_id]]

\* The statistics of a non-empty sequence of samples, without rejection.
StatsOf(samples) ==
    LET n  == Len(samples)
        LB == LcmSeq([i \in 1..n |-> samples[i].price[2]])
        LD == LcmSeq([i \in 1..n |-> samples[i].dt])
        values  == [i \in 1..n |-> samples[i].price[1] * (LB \div samples[i].price[2])]
        weights == [i \in 1..n |-> LD \div samples[i].dt]
        ms == calc_mean_std(values, weights)
    IN  [ms |-> ms, values |-> values, LB |-> LB, LD |-> LD]

StatsResult(samples) ==
    LET Result(st) ==
            [mean   |-> Rat(st.ms.S, st.ms.W * st.LB),
             stddev |-> Rat(BigToInt(st.ms.V),
                            st.ms.W * st.ms.W * st.ms.W * st.LB * st.LB),
             weight |-> Rat(weight_increment * st.ms.W, st.LD),
             count  |-> Len(samples),
             used   |-> {samples[i].item_id : i \in 1..Len(samples)},
             raised |-> FALSE]
    IN  Result(StatsOf(samples))

\* Throw out values outside of 2 stddev.
RECURSIVE ExtractOk(_, _, _)
ExtractOk(samples, st, i) ==
    IF i > Len(samples) THEN <<>>
    ELSE (IF PriceOk(st.ms, st.values[i]) THEN <<samples[i]>> ELSE <<>>)
         \o ExtractOk(samples, st, i + 1)

\* MeanAndStdOf rejecting again and again, until the deviation is small or
\* nothing more is rejected.
RECURSIVE MeanAndStdRepeated(_)
MeanAndStdRepeated(samples) ==
    LET Kept(kept) == IF kept = samples THEN StatsResult(samples)
                      ELSE MeanAndStdRepeated(kept)
        With(st) == IF Len(samples) > 3 /\ LargeStddev(st.ms)
                    THEN Kept(ExtractOk(samples, st, 1))
                    ELSE StatsResult(samples)
    IN  IF Len(samples) = 0 THEN NoStats ELSE With(StatsOf(samples))

\* The statistics _get_mean_and_std computes from the selected rows.
MeanAndStdOf(samples) ==
    LET Kept(kept) == IF kept = <<>>
                      THEN [NoStats EXCEPT !.raised = TRUE]
                      ELSE StatsResult(kept)
        With(st) == IF Len(samples) > 3 /\ LargeStddev(st.ms)
                    THEN Kept(ExtractOk(samples, st, 1))
                    ELSE StatsResult(samples)
    IN  IF Len(samples) = 0 THEN NoStats ELSE With(StatsOf(samples))

_get_mean_and_std(sale, item, clock, name, currency, league, sale_time) ==
    MeanAndStdOf(
        BucketSamples(sale, item, clock, name, currency, league, sale_time))

(***************************************************************************)
(* find_value_of.  The rows leaving `name` are read in descending weight;  *)
(* the store leaves the order of rows of equal weight open, so `tie` (a    *)
(* ranking of the currency names) stands for the order it happens to use.  *)
(***************************************************************************)
Falsy(score) == IsNone(score) \/ RatIsZero(score)

\* SummaryRow over the rows of every league.
SummaryRowAnyLeague(summary, from, to, league) ==
    LET hits == {r \in summary : /\ r.from_currency = from
                                 /\ r.to_currency = to}
    IN  IF hits = {} THEN None ELSE Some(CHOOSE r \in hits : TRUE)

\* query.one_or_none() on the rows of a key; None when there is no row.
SummaryRow(summary, from, to, league) ==
    LET hits == {r \in summary : /\ r.from_currency = from
                                 /\ r.to_currency = to
                                 /\ r.league = league}
    IN  IF hits = {} THEN None ELSE Some(CHOOSE r \in hits : TRUE)

\* ORDER BY weight DESC over the rows from `name` in `league`.
RECURSIVE OrderByWeightDesc(_, _)
OrderByWeightDesc(rows, tie) ==
    IF rows = {} THEN <<>>
    ELSE LET first == CHOOSE r \in rows : \A o \in rows \ {r} :
                          \/ RatLess(o.weight, r.weight)
                          \/ /\ o.weight = r.weight
                             /\ tie[r.to_currency] <= tie[o.to_currency]
         IN  <<first>> \o OrderByWeightDesc(rows \ {first}, tie)

\* ValueLoop where a candidate replaces the incumbent only when strictly
\* better, the direct edge included.
RECURSIVE ValueLoopStrict(_, _, _, _, _, _)
ValueLoopStrict(summary, league, rows, i, high_score, conversion) ==
    IF i > Len(rows) THEN [high_score |-> high_score, conversion |-> conversion]
    ELSE LET row == rows[i]
             target == row.to_currency
         IN  IF target = CHAOS
             THEN IF Falsy(high_score) \/ RatLess(high_score, row.weight)
                  THEN [high_score |-> row.weight, conversion |-> row.mean]
                  ELSE [high_score |-> high_score, conversion |-> conversion]
             ELSE IF ~Falsy(high_score) /\ RatLeq(row.weight, high_score)
             THEN ValueLoopStrict(summary, league, rows, i + 1, high_score,
                                  conversion)
             ELSE LET row2 == SummaryRow(summary, target, CHAOS, league)
                  IN  IF IsNone(row2)
                      THEN ValueLoopStrict(summary, league, rows, i + 1,
                                           high_score, conversion)
                      ELSE LET score == RatMin(row.weight, TheVal(row2).weight)
                           IN  IF Falsy(high_score) \/ RatLess(high_score, score)
                               THEN ValueLoopStrict(summary, league, rows, i + 1,
                                        score, RatMul(row.mean, TheVal(row2).mean))
                               ELSE ValueLoopStrict(summary, league, rows, i + 1,
                                                    high_score, conversion)

\* ValueLoop keeping the last two-hop path found rather than the best.
RECURSIVE ValueLoopLast(_, _, _, _, _, _)
ValueLoopLast(summary, league, rows, i, high_score, conversion) ==
    IF i > Len(rows) THEN [high_score |-> high_score, conversion |-> conversion]
    ELSE LET row == rows[i]
             target == row.to_currency
         IN  IF target = CHAOS
             THEN IF Falsy(high_score) \/ RatLeq(high_score, row.weight)
                  THEN [high_score |-> row.weight, conversion |-> row.mean]
                  ELSE [high_score |-> high_score, conversion |-> conversion]
             ELSE LET row2 == SummaryRow(summary, target, CHAOS, league)
                  IN  IF IsNone(row2)
                      THEN ValueLoopLast(summary, league, rows, i + 1,
                                         high_score, conversion)
                      ELSE ValueLoopLast(summary, league, rows, i + 1,
                               RatMin(row.weight, TheVal(row2).weight),
                               RatMul(row.mean, TheVal(row2).mean))

\* The loop over the ordered rows, from row i on, with the loop's variables.
RECURSIVE ValueLoop(_, _, _, _, _, _)
ValueLoop(summary, league, rows, i, high_score, conversion) ==
    IF i > Len(rows) THEN [high_score |-> high_score, conversion |-> conversion]
    ELSE LET row == rows[i]
             target == row.to_currency
         IN  IF target = CHAOS
             THEN IF Falsy(high_score) \/ RatLeq(high_score, row.weight)
                  THEN [high_score |-> row.weight, conversion |-> row.mean]
                  ELSE [high_score |-> high_score, conversion |-> conversion]
             ELSE IF ~Falsy(high_score) /\ RatLeq(row.weight, high_score)
             THEN ValueLoop(summary, league, rows, i + 1, high_score, conversion)
             ELSE LET row2 == SummaryRow(summary, target, CHAOS, league)
                  IN  IF IsNone(row2)
                      THEN ValueLoop(summary, league, rows, i + 1,
                                     high_score, conversion)
                      ELSE LET score == RatMin(row.weight, TheVal(row2).weight)
                           IN  IF Falsy(high_score) \/ RatLess(high_score, score)
                               THEN ValueLoop(summary, league, rows, i + 1, score,
                                        RatMul(row.mean, TheVal(row2).mean))
                               ELSE ValueLoop(summary, league, rows, i + 1,
                                              high_score, conversion)

\* What a call that raises leaves in the place of its result.
Raised == <<"raised">>

\* find_value_of without the shortcut for Chaos Orb: the rows leaving Chaos
\* Orb are searched like those of any other name.
find_value_of_searching(summary, name, league, price, tie) ==
    LET rows == OrderByWeightDesc(
                    {r \in summary : r.from_currency = name
                                     /\ r.league = league}, tie)
        best == ValueLoop(summary, league, rows, 1, None, None)
    IN  IF ~Falsy(best.high_score)
        THEN RatMul(best.conversion, price)
        ELSE LET row == SummaryRow(summary, CHAOS, name, league)
             IN  IF IsNone(row) THEN None
                 ELSE IF RatIsZero(TheVal(row).mean) THEN Raised
                 ELSE RatMul(RatInv(TheVal(row).mean), price)

find_value_of(summary, name, league, price, tie) ==
    IF name = CHAOS THEN price
    ELSE LET rows == OrderByWeightDesc(
                         {r \in summary : r.from_currency = name
                                          /\ r.league = league}, tie)
             best == ValueLoop(summary, league, rows, 1, None, None)
         IN  IF ~Falsy(best.high_score)
             THEN RatMul(best.conversion, price)
             ELSE LET row == SummaryRow(summary, CHAOS, name, league)
                  IN  IF IsNone(row) THEN None
                      ELSE IF RatIsZero(TheVal(row).mean)
                      THEN Raised               \* 1.0/0.0: ZeroDivisionError
                      ELSE RatMul(RatInv(TheVal(row).mean), price)

(***************************************************************************)
(* The Summary Updater and the Sale Extractor work on d, the session's     *)
(* view of the store: [sale, summary, contrib], where contrib is history:  *)
(* for each bucket <<from, to, league>> written so far, the item ids of    *)
(* the sales its stored statistics were computed from.                     *)
(***************************************************************************)
\* _update_currency_summary recomputing whatever the age of the row.
_update_currency_summary_uncached(d, item, clock, recent, name, currency, league, sale_time) ==
    LET existing == SummaryRow(d.summary, name, currency, league)
        key == <<name, currency, league>>
        Stats(st) == [count |-> st.count, mean |-> st.mean,
                      weight |-> st.weight, standard_dev |-> st.stddev,
                      updated_at |-> clock]
        Written(stats) ==
            IF ~IsNone(existing)
            THEN {IF <<r.from_currency, r.to_currency, r.league>> = key
                  THEN stats @@ r ELSE r : r \in d.summary}
            ELSE d.summary \cup
                 {stats @@ [from_currency |-> name, to_currency |-> currency,
                            league |-> league, created_at |-> clock]}
        With(st) ==
            IF st.raised THEN [d |-> d, raised |-> TRUE]
            ELSE IF IsNone(st.stddev) THEN [d |-> d, raised |-> FALSE]
            ELSE [raised |-> FALSE,
                  d |-> [d EXCEPT !.summary = Written(Stats(st)),
                                  !.contrib = (key :> st.used) @@ d.contrib]]
    IN  With(_get_mean_and_std(d.sale, item, clock, name, currency,
                               league, sale_time))

_update_currency_summary(d, item, clock, recent, name, currency, league, sale_time) ==
    LET existing == SummaryRow(d.summary, name, currency, league)
        cached == /\ ~IsNone(recent) /\ TheVal(recent) # 0
                  /\ ~IsNone(existing)
                  /\ TheVal(existing).count >= 10
                  /\ TheVal(existing).updated_at >= clock - TheVal(recent)
        key == <<name, currency, league>>
        Stats(st) == [count |-> st.count, mean |-> st.mean,
                      weight |-> st.weight, standard_dev |-> st.stddev,
                      updated_at |-> clock]
        Written(stats) ==
            IF ~IsNone(existing)
            THEN {IF <<r.from_currency, r.to_currency, r.league>> = key
                  THEN stats @@ r ELSE r : r \in d.summary}
            ELSE d.summary \cup
                 {stats @@ [from_currency |-> name, to_currency |-> currency,
                            league |-> league, created_at |-> clock]}
        With(st) ==
            IF st.raised THEN [d |-> d, raised |-> TRUE]
            ELSE IF IsNone(st.stddev) THEN [d |-> d, raised |-> FALSE]
            ELSE [raised |-> FALSE,
                  d |-> [d EXCEPT !.summary = Written(Stats(st)),
                                  !.contrib = (key :> st.used) @@ d.contrib]]
    IN  IF cached THEN [d |-> d, raised |-> FALSE]
        ELSE With(_get_mean_and_std(d.sale, item, clock, name, currency,
                                    league, sale_time))

\* _update_currency_pricing updating the summary for every sale.
_update_currency_pricing_of_any(d, item, clock, recent, tie, name, currency, league, price, sale_time, is_currency) ==
    LET Valued(upd, value) ==
            [d |-> upd.d, raised |-> upd.raised \/ value = Raised,
             value |-> IF upd.raised \/ value = Raised THEN None ELSE value]
        With(upd) ==
            Valued(upd, IF upd.raised THEN None
                        ELSE find_value_of(upd.d.summary, currency, league,
                                           price, tie))
    IN  With(_update_currency_summary(d, item, clock, recent,
                                      name, currency, league, sale_time))

_update_currency_pricing(d, item, clock, recent, tie, name, currency, league, price, sale_time, is_currency) ==
    LET Valued(upd, value) ==
            [d |-> upd.d, raised |-> upd.raised \/ value = Raised,
             value |-> IF upd.raised \/ value = Raised THEN None ELSE value]
        With(upd) ==
            Valued(upd, IF upd.raised THEN None
                        ELSE find_value_of(upd.d.summary, currency, league,
                                           price, tie))
    IN  With(IF is_currency
             THEN _update_currency_summary(d, item, clock, recent,
                                           name, currency, league, sale_time)
             ELSE [d |-> d, raised |-> FALSE])

\* The id of the sale row of an item, or None: query(Sale).filter(item_id ==).
SaleOfItem(sale, item_id) ==
    IF \E k \in 1..Len(sale) : sale[k].item_id = item_id
    THEN Some(CHOOSE k \in 1..Len(sale) : sale[k].item_id = item_id)
    ELSE None

\* (row.Item.name + " " + row.Item.typeLine).strip(), the strings of the model
\* having no outer blanks themselves.
SaleName(it) ==
    IF it.category THEN it.typeLine
    ELSE IF it.name = "" THEN it.typeLine
    ELSE it.name \o " " \o it.typeLine

\* UpdatedSale stamping the row with the time of the update.
UpdatedSaleStamped(old, it, currency, price, clock) ==
    [old EXCEPT !.sale_currency = currency,
                !.sale_amount = price,
                !.sale_amount_chaos = None,
                !.item_updated_at = clock,
                !.updated_at = clock]

\* The fields _process_sale assigns to the sale row of an item that has one.
UpdatedSale(old, it, currency, price, clock) ==
    [old EXCEPT !.sale_currency = currency,
                !.sale_amount = price,
                !.sale_amount_chaos = None,
                !.item_updated_at = it.updated_at,
                !.updated_at = clock]

\* The sale row _process_sale creates for an item that has none.
NewSale(it, name, is_currency, currency, price, clock) ==
    [item_id |-> it.id, item_api_id |-> it.api_id, name |-> name,
     is_currency |-> is_currency, sale_currency |-> currency,
     sale_amount |-> price, sale_amount_chaos |-> None,
     created_at |-> clock, item_updated_at |-> it.updated_at,
     updated_at |-> clock]

\* PriceOrStashPrice preferring the stash's price.
StashPriceOrPrice(ip, sp) == IF IsNone(sp.amt) THEN ip ELSE sp

\* if price is None: price, currency = (stash_price, stash_currency)
PriceOrStashPrice(ip, sp) == IF IsNone(ip.amt) THEN sp ELSE ip

(***************************************************************************)
(* _process_sale(row) for a joined row [Item, stash]: Item is the item row *)
(* with its id, stash the name of its stash.  The result is [d, id,        *)
(* raised]: the store as the call leaves it, the value returned (a sale id *)
(* or None), and whether an exception left the call instead.               *)
(***************************************************************************)
_process_sale(d, item, row, clock, aliases, recent, tie) ==
    LET it == row.Item
        noteTilde == Truthy(it.note) /\ it.note.tilde
        nothing == [d |-> d, id |-> None, raised |-> FALSE]
        failed  == [d |-> d, id |-> None, raised |-> TRUE]
        is_currency == it.category
        name == SaleName(it)
        stash_parse == parse_note(row.stash, aliases)
        item_parse == parse_note(it.note, aliases)
        Priced(chosen, existing) ==
            LET price == chosen.amt
                currency == TheVal(chosen.cur)
                sid == IF IsNone(existing) THEN Len(d.sale) + 1
                       ELSE TheVal(existing)
                sale1 == IF IsNone(existing)
                         THEN Append(d.sale, NewSale(it, name, is_currency,
                                                     currency, price, clock))
                         ELSE [d.sale EXCEPT ![sid] =
                                UpdatedSale(d.sale[sid], it, currency, price,
                                            clock)]
                With(pr) ==
                    IF pr.raised THEN failed
                    ELSE [raised |-> FALSE, id |-> Some(sid),
                          d |-> IF IsNone(pr.value) THEN pr.d
                                ELSE [pr.d EXCEPT
                                        !.sale[sid].sale_amount_chaos = pr.value]]
            IN  IF IsNone(price) \/ RatIsZero(price) THEN nothing
                ELSE With(_update_currency_pricing(
                              [d EXCEPT !.sale = sale1], item, clock, recent,
                              tie, name, currency, it.league, price,
                              it.updated_at, is_currency))
        Parsed(sp, ip) ==
            IF sp.raised \/ ip.raised THEN failed
            ELSE Priced(PriceOrStashPrice(ip, sp),
                        SaleOfItem(d.sale, it.id))
    IN  IF ~noteTilde /\ row.stash.kind = "none" THEN failed  \* None.startswith
        ELSE IF ~(noteTilde \/ row.stash.tilde) THEN nothing
        ELSE Parsed(stash_parse, item_parse)

(***************************************************************************)
(* _currency_query(start, block_size, offset): the joined rows of public   *)
(* stashes, updated at or after start, in (updated_at, created_at, id)     *)
(* order, block_size of them from offset on.                               *)
(***************************************************************************)
RowBefore(a, b) ==
    \/ a.updated_at < b.updated_at
    \/ a.updated_at = b.updated_at /\ a.created_at < b.created_at
    \/ a.updated_at = b.updated_at /\ a.created_at = b.created_at /\ a.id < b.id

RECURSIVE SortRows(_)
SortRows(ids) ==
    IF ids = {} THEN <<>>
    ELSE LET first == CHOOSE a \in ids : \A b \in ids \ {a} : RowBefore(a, b)
         IN  <<first>> \o SortRows(ids \ {first})

\* The item row with its primary key.
ItemRow(item, i) == [id |-> i] @@ item[i]

MatchesQuery(stash, it, start) ==
    /\ stash[it.stash_id].public
    /\ (IsNone(start) \/ it.updated_at >= TheVal(start))

AllRows(stash, item, start) ==
    SortRows({r \in {ItemRow(item, i) : i \in 1..Len(item)} :
                 MatchesQuery(stash, r, start)})

_currency_query(stash, item, start, size, offset) ==
    LET all == AllRows(stash, item, start)
    IN  [k \in 1..Max(0, Min(size, Len(all) - offset)) |->
            [Item |-> all[offset + k], stash |-> stash[all[offset + k].stash_id].stash]]

\* get_last_processed_time reading the oldest sale record (ascending order).
get_first_processed_time(sale) ==
    IF sale = <<>> THEN None
    ELSE Some(CHOOSE t \in {sale[k].item_updated_at : k \in 1..Len(sale)} :
                  \A k \in 1..Len(sale) : t <= sale[k].item_updated_at)

\* The item update time of the most recent sale record, or None.
get_last_processed_time(sale) ==
    IF sale = <<>> THEN None
    ELSE Some(CHOOSE t \in {sale[k].item_updated_at : k \in 1..Len(sale)} :
                  \A k \in 1..Len(sale) : sale[k].item_updated_at <= t)

(***************************************************************************)
(* PoeDb.insert_api_stash.  An API stash is [id, stash, public, items]; an *)
(* API item [id, valid, typeLine, name, category, league, note], valid     *)
(* saying that it carries every required field (ApiStash.items skips the   *)
(* items that fail ApiItem.validate).                                      *)
(***************************************************************************)
RowOfApi(table, api_id) ==
    IF \E k \in 1..Len(table) : table[k].api_id = api_id
    THEN Some(CHOOSE k \in 1..Len(table) : table[k].api_id = api_id)
    ELSE None

\* _insert_or_update_row(Stash, stash, simple_fields)
InsertOrUpdateStash(stash, clock, thing) ==
    LET existing == RowOfApi(stash, thing.id)
        fields == [api_id |-> thing.id, stash |-> thing.stash,
                   public |-> thing.public, updated_at |-> clock]
    IN  IF IsNone(existing)
        THEN Append(stash, fields @@ [created_at |-> clock])
        ELSE [stash EXCEPT ![TheVal(existing)] = fields @@ @]

\* _insert_or_update_row(Item, item, simple_fields, stash=stash)
InsertOrUpdateItem(item, clock, thing, stash_id) ==
    LET existing == RowOfApi(item, thing.id)
        fields == [api_id |-> thing.id, updated_at |-> clock,
                   stash_id |-> stash_id, active |-> TRUE,
                   typeLine |-> thing.typeLine, name |-> thing.name,
                   category |-> thing.category, league |-> thing.league,
                   note |-> thing.note]
    IN  IF IsNone(existing)
        THEN Append(item, fields @@ [created_at |-> clock])
        ELSE [item EXCEPT ![TheVal(existing)] = fields @@ @]

\* _invalidate_stash_items marking nothing.
_keep_stash_items(item, stash_id) == item

\* Mark all items in this stash as inactive, pending update.
_invalidate_stash_items(item, stash_id) ==
    [k \in 1..Len(item) |->
        IF item[k].stash_id = stash_id THEN [item[k] EXCEPT !.active = FALSE]
        ELSE item[k]]

\* ApiStash.items: the items of the payload that validate.
ValidItems(things) == SelectSeq(things, LAMBDA t : t.valid)

RECURSIVE InsertItems(_, _, _, _)
InsertItems(item, clock, things, stash_id) ==
    IF things = <<>> THEN item
    ELSE InsertItems(InsertOrUpdateItem(item, clock, Head(things), stash_id),
                     clock, Tail(things), stash_id)

\* InsertItems where the clock, read anew for every row, has advanced by d
\* when the rows from the k-th on are written.
RECURSIVE InsertItemsSlowly(_, _, _, _, _, _)
InsertItemsSlowly(item, clock, things, stash_id, k, d) ==
    IF things = <<>> THEN item
    ELSE InsertItemsSlowly(
             InsertOrUpdateItem(item, IF k <= 1 THEN clock + d ELSE clock,
                                Head(things), stash_id),
             clock, Tail(things), stash_id, k - 1, d)

\* insert_api_stash(stash, with_items, keep_items): the tables it leaves.
insert_api_stash(stash, item, clock, thing, with_items, keep_items) ==
    LET stash1 == InsertOrUpdateStash(stash, clock, thing)
        sid == TheVal(RowOfApi(stash1, thing.id))
        item1 == IF keep_items THEN item ELSE _invalidate_stash_items(item, sid)
    IN  [stash |-> stash1,
         item  |-> IF with_items
                   THEN InsertItems(item1, clock, ValidItems(thing.items), sid)
                   ELSE item]

(***************************************************************************)
(* One block of _currency_processor_single_pass: the loop over the rows of *)
(* the block's query.  acc is [d, count, last_row, handed, raised].        *)
(***************************************************************************)
\* BlockLoop rebuilding the alias map from the summary rows before each row.
RECURSIVE BlockLoopRebuilding(_, _, _, _, _, _, _, _)
BlockLoopRebuilding(acc, item, rows, i, clock, aliases, recent, tie) ==
    IF i > Len(rows) \/ acc.raised THEN acc
    ELSE LET row == rows[i]
         IN  IF ~(Truthy(row.Item.note) \/ Truthy(row.stash))
             THEN BlockLoopRebuilding(acc, item, rows, i + 1, clock, aliases,
                                      recent, tie)
             ELSE LET After(r) ==
                          [d |-> r.d, count |-> acc.count + 1,
                           last_row |-> IF IsNone(r.id) THEN acc.last_row ELSE r.id,
                           handed |-> Append(acc.handed,
                                        [id |-> row.Item.id,
                                         updated_at |-> row.Item.updated_at]),
                           raised |-> r.raised]
                  IN  BlockLoopRebuilding(
                          After(_process_sale(
                                    acc.d, item, row, clock,
                                    get_actual_currencies(acc.d.summary),
                                    recent, tie)),
                          item, rows, i + 1, clock, aliases, recent, tie)

RECURSIVE BlockLoop(_, _, _, _, _, _, _, _)
BlockLoop(acc, item, rows, i, clock, aliases, recent, tie) ==
    IF i > Len(rows) \/ acc.raised THEN acc
    ELSE LET row == rows[i]
         IN  IF ~(Truthy(row.Item.note) \/ Truthy(row.stash))
             THEN BlockLoop(acc, item, rows, i + 1, clock, aliases, recent, tie)
             ELSE LET After(r) ==
                          [d |-> r.d, count |-> acc.count + 1,
                           last_row |-> IF IsNone(r.id) THEN acc.last_row ELSE r.id,
                           handed |-> Append(acc.handed,
                                        [id |-> row.Item.id,
                                         updated_at |-> row.Item.updated_at]),
                           raised |-> r.raised]
                  IN  BlockLoop(
                          After(_process_sale(acc.d, item, row, clock, aliases,
                                              recent, tie)),
                          item, rows, i + 1, clock, aliases, recent, tie)

(***************************************************************************)
(* The state.                                                              *)
(*   now                 the wall clock, in seconds                        *)
(*   stash, item, sale, currency_summary   the committed tables            *)
(*   start_time, continuous, recent        the post-processor's settings   *)
(*   actual_currencies   the alias map of the running pass                 *)
(*   pc                  where the driver is: "idle" (not running),        *)
(*                       "block" (in the loop of a pass, about to query),  *)
(*                       "head" (continuous mode, about to begin a pass)   *)
(*   start, offset, last_row, prev         the driver's local variables    *)
(* History, read only by the properties:                                   *)
(*   contrib    per bucket, the items whose sales its statistics used      *)
(*   handed     the rows handed to _process_sale in the running pass       *)
(*   readRows   the ids of the rows the running pass has read              *)
(*   lastLen    the number of rows its last query returned                 *)
(*   passes     the passes the running call of the driver has begun        *)
(*   passT      the greatest sale.item_updated_at when the pass began      *)
(*   stable     no ingest since the pass began                             *)
(*   outcome    how the last run ended: "none", "returned", "raised",      *)
(*              "crashed"                                                  *)
(*   snap       the sale and summary rows as they were when the last run   *)
(*              began; cleanRuns the completed runs since the last ingest  *)
(*              (-1 in a run during which an ingest happened, and after a  *)
(*              run that did not reach its end)                            *)
(*   ingests, runs, ticks   how many of each have happened                 *)
(*   call       the last call of a function checked on its own             *)
(***************************************************************************)
VARIABLES now, stash, item, sale, currency_summary,
          start_time, continuous, recent,
          actual_currencies, pc, start, offset, last_row, prev,
          contrib, handed, readRows, lastLen, passT, stable, passes, outcome,
          snap, cleanRuns, ingests, runs, ticks, call

tables == <<stash, item, sale, currency_summary, contrib>>

settings == <<start_time, continuous, recent>>

driver == <<actual_currencies, pc, start, offset, last_row, prev>>

passHistory == <<handed, readRows, lastLen, passT, stable, passes>>

vars == <<now, stash, item, sale, currency_summary, start_time, continuous,
          recent, actual_currencies, pc, start, offset, last_row, prev,
          contrib, handed, readRows, lastLen, passT, stable, passes, outcome,
          snap, cleanRuns, ingests, runs, ticks, call>>

\* Number of rows per block.  The code's 1000, scaled down.
block_size == 2

\* recent=600 in CurrencyPostprocessor.__init__
DefaultRecent == 600

MaxIngests == 2

MaxRuns == 2

MaxTicks == 1

\* The passes a continuous driver is followed for.
MaxPasses == 3

\* The clock's value when the store is created.
Epoch == 1000

\* Permutations of the currency names: the orders a store may return rows of
\* equal weight in.
Currencies == {CHAOS, EXALTED, CHROMATIC}

TieOrders ==
    {f \in [Currencies -> 1..Cardinality(Currencies)] :
        \A a, b \in Currencies : a # b => f[a] # f[b]}

\* The rows of sale and currency_summary by natural key and numeric values,
\* without their timestamps.
NaturalSales(s) ==
    {[item_id |-> s[k].item_id, name |-> s[k].name,
      is_currency |-> s[k].is_currency, sale_currency |-> s[k].sale_currency,
      sale_amount |-> s[k].sale_amount,
      sale_amount_chaos |-> s[k].sale_amount_chaos,
      item_updated_at |-> s[k].item_updated_at] : k \in 1..Len(s)}

NaturalSummaries(cs) ==
    {[from_currency |-> r.from_currency, to_currency |-> r.to_currency,
      league |-> r.league, count |-> r.count, mean |-> r.mean,
      standard_dev |-> r.standard_dev, weight |-> r.weight] : r \in cs}

\* The greatest item_updated_at over the sale rows, None when there is none.
MaxSaleTime(s) ==
    IF s = <<>> THEN None
    ELSE Some(CHOOSE t \in {s[k].item_updated_at : k \in 1..Len(s)} :
                  \A k \in 1..Len(s) : s[k].item_updated_at <= t)

EmptyStore ==
    /\ now = Epoch
    /\ stash = <<>>
    /\ item = <<>>
    /\ sale = <<>>
    /\ currency_summary = {}
    /\ contrib = <<>>

DriverIdle ==
    /\ actual_currencies = <<>>
    /\ pc = "idle"
    /\ start = None
    /\ offset = 0
    /\ last_row = None
    /\ prev = None
    /\ handed = <<>>
    /\ readRows = <<>>
    /\ lastLen = 0
    /\ passT = None
    /\ stable = TRUE
    /\ passes = 0
    /\ outcome = "none"
    /\ snap = [sale |-> {}, summary |-> {}]
    /\ cleanRuns = 0
    /\ ingests = 0
    /\ runs = 0
    /\ ticks = 0
    /\ call = [fn |-> "none"]

Init ==
    /\ EmptyStore
    /\ DriverIdle
    /\ start_time = None
    /\ continuous = FALSE
    /\ recent = Some(DefaultRecent)

(***************************************************************************)
(* The ingester: sample_api_reader.pull_data inserts the stashes of a page *)
(* and commits.  A page is one stash here.                                 *)
(***************************************************************************)
InsertApiStash(thing) ==
    /\ LET r == insert_api_stash(stash, item, now, thing, TRUE, FALSE)
       IN  /\ stash' = r.stash
           /\ item' = r.item
    /\ ingests' = ingests + 1
    /\ stable' = FALSE
    /\ cleanRuns' = IF pc = "idle" THEN 0 ELSE 0 - 1
    /\ call' = [fn |-> "insert_api_stash", stash |-> thing.id,
                reingest |-> /\ ~IsNone(RowOfApi(stash, thing.id))
                             /\ \E i \in 1..Len(item) : item[i].stash_id =
                                    TheVal(RowOfApi(stash, thing.id)),
                carried |-> {[id |-> thing.items[k].id,
                              valid |-> thing.items[k].valid] :
                                 k \in 1..Len(thing.items)}]
    /\ UNCHANGED <<now, sale, currency_summary, contrib, settings, driver,
                   handed, readRows, lastLen, passT, passes, outcome, snap, runs,
                   ticks>>

\* Time passes.
Tick(d) ==
    /\ ticks < MaxTicks
    /\ now' = now + d
    /\ ticks' = ticks + 1
    /\ UNCHANGED <<tables, settings, driver, passHistory, outcome, snap,
                   cleanRuns, ingests, runs, call>>

(***************************************************************************)
(* The driver, do_currency_postprocessor.                                  *)
(***************************************************************************)
\* The head of a pass: the alias map, the start time, the pass's variables.
PassHead ==
    /\ actual_currencies' = get_actual_currencies(currency_summary)
    /\ start' = IF ~IsNone(start_time) /\ TheVal(start_time) # 0
                THEN start_time
                ELSE get_last_processed_time(sale)
    /\ offset' = 0
    /\ last_row' = None
    /\ pc' = "block"
    /\ handed' = <<>>
    /\ readRows' = <<>>
    /\ lastLen' = 0
    /\ passT' = MaxSaleTime(sale)
    /\ stable' = TRUE

\* do_currency_postprocessor is called: up to the first pass's first query.
StartRun ==
    /\ pc = "idle"
    /\ runs < MaxRuns
    /\ runs' = runs + 1
    /\ prev' = None
    /\ passes' = 1
    /\ PassHead
    /\ snap' = [sale |-> NaturalSales(sale),
                summary |-> NaturalSummaries(currency_summary)]
    /\ UNCHANGED <<now, tables, settings, outcome, cleanRuns, ingests, ticks,
                   call>>

\* Continuous mode: the next pass begins.
NextPass ==
    /\ pc = "head"
    /\ passes < MaxPasses
    /\ passes' = passes + 1
    /\ PassHead
    /\ UNCHANGED <<now, tables, settings, prev, outcome, snap, cleanRuns,
                   ingests, runs, ticks, call>>

\* One block: query, process the rows, commit; after a partial block the end
\* of the pass (the pause, and the return when not continuous).
ProcessBlockUntil(tie, latest) ==
    /\ pc = "block"
    /\ LET Commit(rows, acc) ==
               LET todo == acc.count = block_size
                   same == ~IsNone(prev) /\ acc.last_row = prev
               IN  /\ readRows' = readRows \o [k \in 1..Len(rows) |-> rows[k].Item.id]
                   /\ lastLen' = Len(rows)
                   /\ IF acc.raised
                      THEN \* the exception leaves the run; nothing of the block is kept
                           /\ pc' = "idle"
                           /\ outcome' = "raised"
                           /\ cleanRuns' = 0 - 1
                           /\ UNCHANGED <<now, sale, currency_summary, contrib, offset,
                                          last_row, prev, handed>>
                      ELSE /\ sale' = acc.d.sale
                           /\ currency_summary' = acc.d.summary
                           /\ contrib' = acc.d.contrib
                           /\ handed' = handed \o acc.handed
                           /\ offset' = offset + acc.count
                           /\ last_row' = acc.last_row
                           /\ IF todo
                              THEN /\ pc' = "block"
                                   /\ UNCHANGED <<now, prev, outcome, cleanRuns>>
                              ELSE /\ prev' = IF same THEN prev ELSE acc.last_row
                                   /\ now' = IF same /\ continuous
                                             THEN Min(now + 1, latest)
                                             ELSE now
                                   /\ pc' = IF continuous THEN "head" ELSE "idle"
                                   /\ outcome' = IF continuous THEN outcome ELSE "returned"
                                   /\ cleanRuns' = IF continuous THEN cleanRuns
                                                   ELSE Min(2, cleanRuns + 1)
           Block(rows) ==
               Commit(rows,
                      BlockLoop(
                          [d |-> [sale |-> sale, summary |-> currency_summary,
                                  contrib |-> contrib],
                           count |-> 0, last_row |-> last_row,
                           handed |-> <<>>, raised |-> FALSE],
                          item, rows, 1, now, actual_currencies, recent, tie))
       IN  Block(_currency_query(stash, item, start, block_size, offset))
    /\ UNCHANGED <<stash, item, settings, actual_currencies, start, passT,
                   stable, passes, snap, ingests, runs, ticks, call>>

\* time.sleep(1) moves the clock by a second.
ProcessBlock(tie) == ProcessBlockUntil(tie, now + 1)

(***************************************************************************)
(* The inputs of the pipeline: the pages the stash API may deliver.  One   *)
(* public stash carrying any of four currency items: "a" and "d", both     *)
(* Exalted Orbs, "b", a Chromatic Orb, and "c", a Chaos Orb.  When the     *)
(* stash has a display name ("Goodies") the items carry price notes; when  *)
(* it has none, items without a note are rows with neither note nor stash  *)
(* name.                                                                   *)
(***************************************************************************)
League == "Standard"

ApiItemOf(id, typeLine, note) ==
    [id |-> id, valid |-> TRUE, typeLine |-> typeLine, name |-> "",
     category |-> TRUE, league |-> League, note |-> note]

\* Zero or one version of an item, as a set of sequences.
Maybe(id, typeLine, notes) ==
    {<<>>} \cup {<<ApiItemOf(id, typeLine, n)>> : n \in notes}

Page(name, items) ==
    [id |-> "s1", stash |-> name, public |-> TRUE, items |-> items]

NamedPages ==
    {Page(PlainNote, a \o b \o d) :
        a \in Maybe("a", EXALTED, {NoNote, PriceNote(5, 1, "chrom"),
                                   PriceNote(100, 1, "chaos")}),
        b \in Maybe("b", CHROMATIC, {PriceNote(1, 5, "chaos")}),
        d \in Maybe("d", EXALTED, {PriceNote(90, 1, "chaos")})}

NamelessPages ==
    {Page(NoNote, a \o b \o c) :
        a \in Maybe("a", EXALTED, {NoNote, PriceNote(100, 1, "chaos")}),
        b \in Maybe("b", CHROMATIC, {NoNote}),
        c \in Maybe("c", CHAOS, {NoNote})}

Payloads == NamedPages \cup NamelessPages

\* The orders of rows of equal weight the pipeline is run with.
PipelineTieOrders == {f \in TieOrders : f[CHAOS] = 2}

Delays == {1, 2 * relevant}

Next ==
    \/ ingests < MaxIngests /\ \E thing \in Payloads : InsertApiStash(thing)
    \/ \E d \in Delays : Tick(d)
    \/ StartRun
    \/ \E tie \in PipelineTieOrders : ProcessBlock(tie)

Spec == Init /\ [][Next]_vars

(***************************************************************************)
(* Properties of the pipeline.                                             *)
(***************************************************************************)
\* The driver has returned from its second (or later) run in succession over
\* stash and item rows that no ingest has touched since before the first.
AfterSecondRun == pc = "idle" /\ outcome = "returned" /\ cleanRuns >= 2

PassCompleted == pc = "idle" /\ outcome = "returned" /\ stable

\* The price the effective note of an item row parses to under the pass's
\* alias map: the item note's, else the stash name's.
EffectivePrice(it) ==
    LET item_parse == parse_note(it.note, actual_currencies)
        stash_parse == parse_note(stash[it.stash_id].stash, actual_currencies)
    IN  IF IsNone(item_parse.amt) THEN stash_parse.amt ELSE item_parse.amt

PricedPositive(it) ==
    /\ ~IsNone(EffectivePrice(it))
    /\ RatLess(Rat(0, 1), EffectivePrice(it))

\* C2: at the end of every completed pass, every item of a public stash that
\* the pass handed to the Sale Extractor has a sale row if and only if its
\* effective note currently parses to a positive price.
C2_SaleIffPriced ==
    PassCompleted =>
        \A k \in 1..Len(handed) :
            LET it == item[handed[k].id]
            IN  stash[it.stash_id].public =>
                    (~IsNone(SaleOfItem(sale, handed[k].id)) <=> PricedPositive(it))

\* The bucket a sale belongs to.
BucketOf(s) == <<s.name, s.sale_currency, item[s.item_id].league>>

InWindow(s) == s.item_updated_at > now - relevant

\* C3: at the end of every completed pass, every currency sale inside the
\* relevance window is among the samples of the summary row of its own bucket
\* and is reflected in the row of no other bucket.
C3_SaleInExactlyOneBucket ==
    (pc = "idle" /\ outcome = "returned") =>
        \A k \in 1..Len(sale) :
            (sale[k].is_currency /\ InWindow(sale[k])) =>
                /\ BucketOf(sale[k]) \in DOMAIN contrib
                /\ sale[k].item_id \in contrib[BucketOf(sale[k])]
                /\ \A other \in DOMAIN contrib \ {BucketOf(sale[k])} :
                       sale[k].item_id \notin contrib[other]

\* How often x occurs in the sequence q.
Occurrences(q, x) == Cardinality({k \in 1..Len(q) : q[k] = x})

HandedIds == [k \in 1..Len(handed) |-> handed[k].id]

\* The rows the pass's query selects: joined to a public stash, updated at or
\* after the pass's start.
MatchingRows ==
    {r \in {ItemRow(item, i) : i \in 1..Len(item)} : MatchesQuery(stash, r, start)}

HasNoteOrStashName(r) == Truthy(r.note) \/ Truthy(stash[r.stash_id].stash)

\* C4: a pass over an unchanging item table reads every matching row exactly
\* once, hands every matching row that has a note or a stash name to the Sale
\* Extractor exactly once, and stops only after a block of fewer than
\* block_size rows.
C4_EachRowOnce ==
    PassCompleted =>
        /\ \A r \in MatchingRows : Occurrences(readRows, r.id) = 1
        /\ \A r \in MatchingRows :
               HasNoteOrStashName(r) => Occurrences(HandedIds, r.id) = 1
        /\ lastLen < block_size

\* C5: with start_time unset and sale rows whose greatest item_updated_at is
\* T when a pass begins, the pass hands no item with updated_at < T to the
\* Sale Extractor.
C5_NothingOlderThanLastSale ==
    (IsNone(start_time) /\ ~IsNone(passT)) =>
        \A k \in 1..Len(handed) : handed[k].updated_at >= TheVal(passT)

\* A completed pass that handed rows while an older row, which has a note or
\* a stash name, was left out.
C5_OlderRowLeftOut ==
    /\ pc = "idle" /\ outcome = "returned"
    /\ IsNone(start_time) /\ ~IsNone(passT)
    /\ handed # <<>>
    /\ \E i \in 1..Len(item) :
           /\ item[i].updated_at < TheVal(passT)
           /\ stash[item[i].stash_id].public
           /\ HasNoteOrStashName(item[i])
           /\ Occurrences(HandedIds, i) = 0

(***************************************************************************)
(* The ingester on its own: pages of two stashes, carrying any of two      *)
(* items, each of which may lack a required field.                         *)
(***************************************************************************)
MaxPages == 3

\* An item of the feed that lacks a required field (a null category).
InvalidItemOf(id, typeLine) ==
    [ApiItemOf(id, typeLine, NoNote) EXCEPT !.valid = FALSE]

MaybeInvalid(id, typeLine) ==
    {<<>>, <<ApiItemOf(id, typeLine, NoNote)>>, <<InvalidItemOf(id, typeLine)>>}

IngestPages ==
    {[id |-> sid, stash |-> PlainNote, public |-> TRUE, items |-> a \o b] :
        sid \in {"s1", "s2"},
        a \in MaybeInvalid("a", EXALTED),
        b \in MaybeInvalid("b", CHROMATIC)}

NextIngest ==
    \/ ingests < MaxPages /\ \E thing \in IngestPages : InsertApiStash(thing)
    \/ \E d \in Delays : Tick(d)

SpecIngest == Init /\ [][NextIngest]_vars

\* The rows of the item table recorded in the stash of the last ingest.
RowsOfLastStash ==
    {i \in 1..Len(item) :
        item[i].stash_id = TheVal(RowOfApi(stash, call.stash))}

CarriedIds == {t.id : t \in call.carried}

\* The last operation was insert_api_stash(stash, with_items=True) on a stash
\* that already had recorded items.
AfterReingest == call.fn = "insert_api_stash" /\ call.reingest

\* C6, as stated: after insert_api_stash(stash, with_items=True) on a stash
\* that already has recorded items, every item recorded in the stash and
\* absent from the payload has active = false and every item the payload
\* carries has active = true.
C6_CarriedAreActive ==
    AfterReingest =>
        /\ \A i \in RowsOfLastStash :
               item[i].api_id \notin CarriedIds => ~item[i].active
        /\ \A id \in CarriedIds :
               \E i \in RowsOfLastStash : item[i].api_id = id /\ item[i].active

\* C6, amended: every item recorded in the stash and absent from the payload
\* has active = false and every item the payload carries that passes
\* validation has active = true; a carried item that lacks a required field
\* is skipped, so that its row, if the stash had one, has active = false.
C6_ValidCarriedAreActive ==
    AfterReingest =>
        /\ \A i \in RowsOfLastStash :
               item[i].api_id \notin CarriedIds => ~item[i].active
        /\ \A t \in call.carried :
               t.valid =>
                   \E i \in RowsOfLastStash : item[i].api_id = t.id /\ item[i].active
        /\ \A t \in call.carried :
               ~t.valid =>
                   \A i \in RowsOfLastStash : item[i].api_id = t.id => ~item[i].active

\* After a re-ingest: a recorded item the payload left out, inactive, beside
\* a recorded item the payload carried again, active.
C6_OmittedBesideCarried ==
    /\ AfterReingest
    /\ \E i, j \in RowsOfLastStash :
           /\ item[i].api_id \notin CarriedIds /\ ~item[i].active
           /\ [id |-> item[j].api_id, valid |-> TRUE] \in call.carried
           /\ item[j].active
           /\ item[j].created_at < item[j].updated_at

(***************************************************************************)
(* The Summary Updater on its own: a store that holds the sales of one     *)
(* bucket (Exalted Orb priced in Chaos Orb), on which                      *)
(* _update_currency_summary is called.                                     *)
(***************************************************************************)
MaxSamples == 5

\* The clock of the statistics runs: late enough for a sale to be too old.
StatsNow == Epoch + relevant

\* What a sale of the bucket may be: a price and the age of its item.  An age
\* of `relevant` is outside the window.
SamplePrices == {Rat(1, 1), Rat(10, 1), Rat(1000, 1)}

SampleAges == {0, 2, relevant}

SampleKinds ==
    SetToSeq({[price |-> p, age |-> a] : p \in SamplePrices, a \in SampleAges})

\* The sales of a store, as indices into SampleKinds, in ascending order (the
\* order of the rows does not matter to the statistics).
SampleChoices ==
    UNION {{q \in [1..n -> 1..Len(SampleKinds)] :
               \A i \in 1..n : \A j \in 1..n : i < j => q[i] <= q[j]} :
           n \in 0..MaxSamples}

\* 20 sales at 0.01 and one at 100, all of the same time.
TwentyAndOne ==
    [i \in 1..21 |-> [price |-> IF i <= 20 THEN Rat(1, 100) ELSE Rat(100, 1),
                      age |-> 0]]

\* Four sales at -10 ("~price -10 chaos": PRICE_RE takes any amount without
\* blanks and float() reads it), all of the same time.
FourBelowZero == [i \in 1..4 |-> [price |-> Rat(0 - 10, 1), age |-> 0]]

SampleSets ==
    {[i \in 1..Len(q) |-> SampleKinds[q[i]]] : q \in SampleChoices}
        \cup {TwentyAndOne, FourBelowZero}

StatsItem(i, s) ==
    [api_id |-> "i" \o ToString(i), stash_id |-> 1, typeLine |-> EXALTED,
     name |-> "", category |-> TRUE, league |-> League,
     note |-> PriceNote(s.price[1], s.price[2], "chaos"), active |-> TRUE,
     created_at |-> StatsNow - s.age, updated_at |-> StatsNow - s.age]

StatsSale(i, s) ==
    [item_id |-> i, item_api_id |-> "i" \o ToString(i), name |-> EXALTED,
     is_currency |-> TRUE, sale_currency |-> CHAOS, sale_amount |-> s.price,
     sale_amount_chaos |-> s.price, item_updated_at |-> StatsNow - s.age,
     created_at |-> StatsNow - s.age, updated_at |-> StatsNow - s.age]

InitStats ==
    /\ DriverIdle
    /\ start_time = None
    /\ continuous = FALSE
    /\ recent = Some(DefaultRecent)
    /\ now = StatsNow
    /\ stash = <<[api_id |-> "s1", stash |-> PlainNote, public |-> TRUE,
                  created_at |-> Epoch, updated_at |-> Epoch]>>
    /\ \E q \in SampleSets :
           /\ item = [i \in 1..Len(q) |-> StatsItem(i, q[i])]
           /\ sale = [i \in 1..Len(q) |-> StatsSale(i, q[i])]
    /\ currency_summary = {}
    /\ contrib = <<>>

\* _update_currency_summary(name, currency, league, price, sale_time) is
\* called on the store.
UpdateCurrencySummary(name, currency, league, sale_time) ==
    /\ call.fn = "none"
    /\ LET Called(r) ==
               /\ currency_summary' = r.d.summary
               /\ contrib' = r.d.contrib
               /\ call' = [fn |-> "_update_currency_summary", name |-> name,
                           currency |-> currency, league |-> league,
                           sale_time |-> sale_time, raised |-> r.raised]
       IN  Called(_update_currency_summary(
                      [sale |-> sale, summary |-> currency_summary,
                       contrib |-> contrib],
                      item, now, recent, name, currency, league, sale_time))
    /\ UNCHANGED <<now, stash, item, sale, settings, driver, passHistory,
                   outcome, snap, cleanRuns, ingests, runs, ticks>>

NextStats ==
    \E sale_time \in {StatsNow, StatsNow - 2} :
        UpdateCurrencySummary(EXALTED, CHAOS, League, sale_time)

SpecStats == InitStats /\ [][NextStats]_vars

\* The in-window samples of the bucket of the last call, their statistics
\* before any rejection, and the samples within 2 standard deviations of
\* that first mean.
CallSamples ==
    BucketSamples(sale, item, now, call.name, call.currency, call.league,
                  call.sale_time)

FirstStats == StatsOf(CallSamples)

WithinTwoStddev == ExtractOk(CallSamples, FirstStats, 1)

CallRow == SummaryRow(currency_summary, call.name, call.currency, call.league)

\* C7: when the bucket has more than 3 in-window samples and its weighted
\* standard deviation exceeds half its weighted mean, the summary written is
\* computed from exactly the samples within 2 standard deviations of the
\* first mean (one rejection pass); for 20 sales at 0.01 and one at 100 the
\* row has count = 20 and mean 0.01.
C7_OneRejectionPass ==
    call.fn = "_update_currency_summary" =>
        /\ (Len(CallSamples) > 3 /\ LargeStddev(FirstStats.ms)) =>
               /\ ~IsNone(CallRow)
               /\ TheVal(CallRow).count = Len(WithinTwoStddev)
               /\ TheVal(CallRow).mean = StatsResult(WithinTwoStddev).mean
               /\ TheVal(CallRow).standard_dev = StatsResult(WithinTwoStddev).stddev
               /\ TheVal(CallRow).weight = StatsResult(WithinTwoStddev).weight
               /\ contrib[<<call.name, call.currency, call.league>>] =
                      {WithinTwoStddev[i].item_id : i \in 1..Len(WithinTwoStddev)}
        /\ Len(sale) = 21 =>
               /\ ~IsNone(CallRow)
               /\ TheVal(CallRow).count = 20
               /\ TheVal(CallRow).mean = Rat(1, 100)

\* The summary of 20 sales at 0.01 and one at 100 has been written.
C7_TwentyAndOneWritten ==
    /\ call.fn = "_update_currency_summary"
    /\ Len(sale) = 21
    /\ Len(CallSamples) = 21
    /\ LargeStddev(FirstStats.ms)
    /\ Len(WithinTwoStddev) = 20
    /\ ~IsNone(CallRow)

\* A summary written after one rejection pass where a second pass over the
\* kept samples would have rejected more.
C7_SecondPassWouldReject ==
    /\ call.fn = "_update_currency_summary"
    /\ Len(CallSamples) > 3 /\ LargeStddev(FirstStats.ms)
    /\ Len(WithinTwoStddev) > 3
    /\ LargeStddev(StatsOf(WithinTwoStddev).ms)
    /\ ExtractOk(WithinTwoStddev, StatsOf(WithinTwoStddev), 1) # WithinTwoStddev

(***************************************************************************)
(* The Valuation Engine on its own: a summary table of one league, drawn   *)
(* from the edges among Exalted Orb, two other currencies and Chaos Orb,   *)
(* on which find_value_of is called.                                       *)
(***************************************************************************)
FUSING == "Orb of Fusing"

ValueCurrencies == Currencies \cup {FUSING}

\* The orders a store may return rows of equal weight in.
ValueTieOrders ==
    {f \in [ValueCurrencies -> 1..Cardinality(ValueCurrencies)] :
        \A a, b \in ValueCurrencies : a # b => f[a] # f[b]}

MaxWeight == 3

EdgeRow(from, to, mean, w) ==
    [from_currency |-> from, to_currency |-> to, league |-> League,
     count |-> 1, mean |-> mean, standard_dev |-> Rat(0, 1),
     weight |-> Rat(w, 1), created_at |-> Epoch, updated_at |-> Epoch]

\* An edge that is absent or present with one of the weights.
MaybeEdge(from, to, mean, weights) ==
    {{}} \cup {{EdgeRow(from, to, mean, w)} : w \in weights}

OtherLeague == "Hardcore"

SummaryTables ==
    {d \cup e \cup f \cup g \cup h \cup s \cup i \cup o :
        d \in MaybeEdge(EXALTED, CHAOS, Rat(90, 1), 1..MaxWeight),
        e \in MaybeEdge(EXALTED, CHROMATIC, Rat(500, 1), 1..MaxWeight),
        f \in MaybeEdge(CHROMATIC, CHAOS, Rat(1, 5), 1..MaxWeight),
        g \in MaybeEdge(EXALTED, FUSING, Rat(11, 1), 1..MaxWeight),
        h \in MaybeEdge(FUSING, CHAOS, Rat(13, 1), 1..MaxWeight),
        s \in MaybeEdge(EXALTED, EXALTED, Rat(2, 1), {MaxWeight}),
        i \in MaybeEdge(CHAOS, EXALTED, Rat(1, 80), {1})
                 \cup MaybeEdge(CHAOS, EXALTED, Rat(0, 1), {1}),
        o \in {{}, {[EdgeRow(EXALTED, CHAOS, Rat(70, 1), 2)
                        EXCEPT !.league = OtherLeague]}}}

InitValue ==
    /\ DriverIdle
    /\ start_time = None
    /\ continuous = FALSE
    /\ recent = Some(DefaultRecent)
    /\ now = Epoch
    /\ stash = <<>>
    /\ item = <<>>
    /\ sale = <<>>
    /\ currency_summary \in SummaryTables
    /\ contrib = <<>>

\* find_value_of(name, league, price) is called on the store.
FindValueOf(name, league, price, tie) ==
    /\ call.fn = "none"
    /\ call' = [fn |-> "find_value_of", name |-> name, league |-> league,
                price |-> price,
                result |-> find_value_of(currency_summary, name, league,
                                         price, tie)]
    /\ UNCHANGED <<now, tables, settings, driver, passHistory, outcome, snap,
                   cleanRuns, ingests, runs, ticks>>

NextValue ==
    \E name \in {EXALTED, CHAOS} : \E price \in {Rat(1, 1), Rat(2, 1)} :
        \E league \in {League, OtherLeague} : \E tie \in ValueTieOrders :
            FindValueOf(name, league, price, tie)

SpecValue == InitValue /\ [][NextValue]_vars

\* The paths from `name` to Chaos Orb in the league, each with its score and
\* conversion: the direct edge scores its weight, a two-hop path the smaller
\* of its two edge weights.
DirectPaths(name, league) ==
    {[direct |-> TRUE, via |-> CHAOS, score |-> r.weight, conversion |-> r.mean] :
        r \in {r \in currency_summary : /\ r.from_currency = name
                                        /\ r.to_currency = CHAOS
                                        /\ r.league = league}}

TwoHopPaths(name, league) ==
    {[direct |-> FALSE, via |-> p[1].to_currency,
      score |-> RatMin(p[1].weight, p[2].weight),
      conversion |-> RatMul(p[1].mean, p[2].mean)] :
        p \in {p \in currency_summary \X currency_summary :
                  /\ p[1].from_currency = name
                  /\ p[1].to_currency # CHAOS
                  /\ p[1].league = league
                  /\ p[2].from_currency = p[1].to_currency
                  /\ p[2].to_currency = CHAOS
                  /\ p[2].league = league}}

Paths(name, league) == DirectPaths(name, league) \cup TwoHopPaths(name, league)

BestPaths(name, league) ==
    {p \in Paths(name, league) :
        \A o \in Paths(name, league) : RatLeq(o.score, p.score)}

\* C8: for a name other than Chaos Orb that has a direct edge or a two-hop
\* path to Chaos Orb, find_value_of returns price times the conversion of a
\* path of maximal score, and the direct edge's when the direct edge is one
\* of the paths of maximal score.
C8_BestPathWins ==
    (/\ call.fn = "find_value_of"
     /\ call.name # CHAOS
     /\ Paths(call.name, call.league) # {}) =>
        /\ \E p \in BestPaths(call.name, call.league) :
               call.result = RatMul(p.conversion, call.price)
        /\ \A p \in BestPaths(call.name, call.league) :
               p.direct => call.result = RatMul(p.conversion, call.price)

\* A call where the direct edge tied the best two-hop path.
C8_DirectTiedTwoHop ==
    /\ call.fn = "find_value_of"
    /\ call.name # CHAOS
    /\ \E p, q \in BestPaths(call.name, call.league) :
           /\ p.direct /\ ~q.direct /\ q.via # call.name
           /\ p.conversion # q.conversion
           /\ call.result = RatMul(p.conversion, call.price)

\* C10, as stated: when `name` has no direct edge to Chaos Orb, for every Y
\* with an edge name->Y of mean a and an edge Y->Chaos Orb of mean b,
\* find_value_of(name, league, p) returns a * b * p.
C10_EveryTwoHop ==
    (/\ call.fn = "find_value_of"
     /\ call.name # CHAOS
     /\ DirectPaths(call.name, call.league) = {}) =>
        \A p \in TwoHopPaths(call.name, call.league) :
            call.result = RatMul(p.conversion, call.price)

\* C10, amended: when `name` has no direct edge to Chaos Orb and has two-hop
\* paths, find_value_of(name, league, p) returns a * b * p for a path
\* name->Y->Chaos Orb whose score min(weight(name->Y), weight(Y->Chaos Orb))
\* is the greatest among them: the one path when there is only one
\* (Exalted->Chromatic 500 and Chromatic->Chaos 0.2 give 100 for p = 1).
C10_BestTwoHop ==
    (/\ call.fn = "find_value_of"
     /\ call.name # CHAOS
     /\ DirectPaths(call.name, call.league) = {}
     /\ TwoHopPaths(call.name, call.league) # {}) =>
        /\ \E p \in BestPaths(call.name, call.league) :
               call.result = RatMul(p.conversion, call.price)
        /\ (/\ Cardinality(TwoHopPaths(call.name, call.league)) = 1
            /\ call.price = Rat(1, 1)
            /\ \E p \in TwoHopPaths(call.name, call.league) : p.via = CHROMATIC)
               => call.result = Rat(100, 1)

\* A call without a direct edge and with two two-hop paths of different
\* scores, answered with the better one.
C10_TwoIntermediates ==
    /\ call.fn = "find_value_of"
    /\ DirectPaths(call.name, call.league) = {}
    /\ \E p, q \in TwoHopPaths(call.name, call.league) :
           /\ RatLess(q.score, p.score)
           /\ call.result = RatMul(p.conversion, call.price)
           /\ call.result # RatMul(q.conversion, call.price)

\* The rows of the item table that are Exalted Orbs.
ExaltedItems == {i \in 1..Len(item) : item[i].typeLine = EXALTED}

\* Every Exalted Orb the store has seen is a currency item of a public stash
\* in the league, priced at 100 Chaos Orb, inside the relevance window.
ExaltedAllAtHundred ==
    /\ ExaltedItems # {}
    /\ \A i \in ExaltedItems :
           /\ item[i].note = PriceNote(100, 1, "chaos")
           /\ item[i].category
           /\ item[i].league = League
           /\ stash[item[i].stash_id].public
           /\ item[i].updated_at > now - relevant

\* C9: after ingesting currency items of type X each priced at m Chaos Orb
\* in league L and running the currency processor, find_value_of(X, L, 1)
\* returns m (here X = Exalted Orb, m = 100).
C9_DirectPricing ==
    (PassCompleted /\ ExaltedAllAtHundred) =>
        \A tie \in PipelineTieOrders :
            find_value_of(currency_summary, EXALTED, League, Rat(1, 1), tie)
                = Rat(100, 1)


\* The rows Chaos Orb->name of the league.
InverseRows(name, league) ==
    {r \in currency_summary : /\ r.from_currency = CHAOS
                              /\ r.to_currency = name
                              /\ r.league = league}

\* C11: when the league holds neither a direct edge name->Chaos Orb nor a
\* two-hop path name->Y->Chaos Orb, find_value_of(name, league, p) returns
\* p / m when a row Chaos Orb->name of mean m exists and None when none
\* does; while a direct or two-hop path exists the result is that of a
\* path, not of the inverse edge.
C11_InverseFallback ==
    (call.fn = "find_value_of" /\ call.name # CHAOS) =>
        IF Paths(call.name, call.league) = {}
        THEN IF InverseRows(call.name, call.league) = {}
             THEN call.result = None
             ELSE \A r \in InverseRows(call.name, call.league) :
                      /\ call.result # Raised
                      /\ call.result # None
                      /\ RatMul(call.result, r.mean) = call.price
        ELSE \E p \in Paths(call.name, call.league) :
                 call.result = RatMul(p.conversion, call.price)

\* C11 for the inverse rows whose mean is not zero.
C11_InverseOfNonZeroMean ==
    (call.fn = "find_value_of" /\ call.name # CHAOS) =>
        IF Paths(call.name, call.league) = {}
        THEN IF InverseRows(call.name, call.league) = {}
             THEN call.result = None
             ELSE \A r \in InverseRows(call.name, call.league) :
                      IF RatIsZero(r.mean) THEN call.result = Raised
                      ELSE call.result = RatMul(RatInv(r.mean), call.price)
        ELSE \E p \in Paths(call.name, call.league) :
                 call.result = RatMul(p.conversion, call.price)

\* C12: find_value_of('Chaos Orb', league, p) returns p, for every league
\* and price and whatever summary rows exist.
C12_ChaosIdentity ==
    (call.fn = "find_value_of" /\ call.name = CHAOS) =>
        call.result = call.price

\* A call for Chaos Orb at price 2 in a league whose rows lead from Chaos Orb
\* to Exalted Orb and from there back to Chaos Orb at another rate.
C12_ChaosAmongRows ==
    /\ call.fn = "find_value_of"
    /\ call.name = CHAOS
    /\ call.price = Rat(2, 1)
    /\ call.result = Rat(2, 1)
    /\ \E r \in InverseRows(EXALTED, call.league) : r.mean = Rat(1, 80)
    /\ DirectPaths(EXALTED, call.league) # {}

(***************************************************************************)
(* The Note Parser by itself: parse_note is called on a post-processor     *)
(* whose store holds summary rows of some names, before do_currency_       *)
(* postprocessor has built the alias map (it is the empty map of the class *)
(* then) or during the pass that built it.                                 *)
(***************************************************************************)
NoteNames == {CHAOS, EXALTED, PRECIOUS, SHARD}

NameTables ==
    {{EdgeRow(n, IF n = EXALTED THEN CHAOS ELSE EXALTED, Rat(1, 100), 1) :
          n \in names} : names \in SUBSET NoteNames}

StaticAbbreviations == DOMAIN OFFICIAL_CURRENCIES \cup DOMAIN UNOFFICIAL_CURRENCIES

Notes ==
    {PriceNote(1, 2, abbr) : abbr \in StaticAbbreviations}
        \cup {PriceNote(1, 1, dashed(Lower(n))) : n \in NoteNames}
        \cup {WordsNote(1, 1, n) : n \in NoteNames}
        \cup {PriceNote(1, 0, "chaos"), PriceNote(0, 0, "chaos"),
              BadAmountNote("chaos"), PriceNote(1, 1, "zorkmid"),
              PlainNote, EmptyNote, NoNote}

InitNote ==
    /\ DriverIdle
    /\ start_time = None
    /\ continuous = FALSE
    /\ recent = Some(DefaultRecent)
    /\ now = Epoch
    /\ stash = <<>>
    /\ item = <<>>
    /\ sale = <<>>
    /\ currency_summary \in NameTables
    /\ contrib = <<>>

\* parse_note(note) is called.
ParseNote(note) ==
    /\ call.fn = "none"
    /\ call' = [fn |-> "parse_note", note |-> note, during |-> pc = "block",
                aliases |-> DOMAIN actual_currencies,
                result |-> parse_note(note, actual_currencies)]
    /\ UNCHANGED <<now, tables, settings, driver, passHistory, outcome, snap,
                   cleanRuns, ingests, runs, ticks>>

NextNote ==
    \/ StartRun
    \/ \E note \in Notes : ParseNote(note)

SpecNote == InitNote /\ [][NextNote]_vars

ParsedAs(amt, full) == [amt |-> amt, cur |-> Some(full), raised |-> FALSE]

C14_DynamicNames ==
    (call.fn = "parse_note" /\ call.during) =>
        \A r \in snap.summary :
            (\/ call.note = PriceNote(1, 1, dashed(Lower(r.from_currency)))
             \/ call.note = WordsNote(1, 1, r.from_currency))
                => call.result = ParsedAs(Rat(1, 1), r.from_currency)

\* C14 for the dashed lowercase names alone.
C14_DashedNames ==
    (call.fn = "parse_note" /\ call.during) =>
        \A r \in snap.summary :
            call.note = PriceNote(1, 1, dashed(Lower(r.from_currency)))
            => call.result = ParsedAs(Rat(1, 1), r.from_currency)

\* C17: parse_note of a note whose amount is a fraction of denominator zero
\* ("~price 1/0 chaos") returns (None, None) and raises nothing, and so does
\* parse_note of a note whose amount is not numeric.
C17_BadAmounts ==
    (/\ call.fn = "parse_note"
     /\ \/ call.note.match /\ call.note.frac /\ call.note.den = 0
        \/ call.note.match /\ ~call.note.numeric) =>
        call.result = NoPrice

\* C17 for the amounts that are not numeric alone.
C17_NonNumericAmounts ==
    (call.fn = "parse_note" /\ call.note.match /\ ~call.note.numeric) =>
        call.result = NoPrice

(***************************************************************************)
(* The end-to-end scenario: from the empty store, one stash is ingested    *)
(* and the currency processor runs.  The clock is read for every row       *)
(* written, so the second item of the stash may be stamped a second after  *)
(* the first.                                                              *)
(***************************************************************************)
ScenarioPages ==
    {Page(PlainNote, a \o b) :
        a \in Maybe("I1", EXALTED, {PriceNote(100, 1, "chaos")}),
        b \in Maybe("I2", CHAOS, {PriceNote(1, 100, "exa"),
                                  PriceNote(1, 100, "exalt"),
                                  PriceNote(1, 100, "zorkmid")})}
      \cup {[Page(PlainNote,
                   <<ApiItemOf("I1", EXALTED, PriceNote(100, 1, "chaos")),
                     ApiItemOf("I2", CHAOS, PriceNote(1, 100, "exa"))>>)
             EXCEPT !.public = FALSE]}

\* insert_api_stash(thing, with_items=True) and the commit, the clock
\* advancing by d before the second item is written.
InsertApiStashSlowly(thing, d) ==
    /\ LET sid == TheVal(RowOfApi(InsertOrUpdateStash(stash, now, thing),
                                  thing.id))
       IN  /\ stash' = InsertOrUpdateStash(stash, now, thing)
           /\ item' = InsertItemsSlowly(_invalidate_stash_items(item, sid),
                                        now, ValidItems(thing.items), sid,
                                        2, d)
    /\ now' = now + d
    /\ ingests' = ingests + 1
    /\ stable' = FALSE
    /\ cleanRuns' = IF pc = "idle" THEN 0 ELSE 0 - 1
    /\ call' = [fn |-> "insert_api_stash", stash |-> thing.id,
                reingest |-> FALSE,
                carried |-> {[id |-> thing.items[k].id,
                              valid |-> thing.items[k].valid] :
                                 k \in 1..Len(thing.items)}]
    /\ UNCHANGED <<sale, currency_summary, contrib, settings, driver,
                   handed, readRows, lastLen, passT, passes, outcome, snap, runs,
                   ticks>>

NextScenario ==
    \/ /\ ingests = 0
       /\ \E thing \in ScenarioPages : \E d \in {0, 1} :
              InsertApiStashSlowly(thing, d)
    \/ \E d \in Delays : Tick(d)
    \/ ingests = 1 /\ StartRun
    \/ \E tie \in PipelineTieOrders : ProcessBlock(tie)

SpecScenario == Init /\ [][NextScenario]_vars

\* The scenario's store: I1 and I2 as the scenario has them.
ScenarioIngested ==
    /\ Len(stash) = 1
    /\ stash[1].public
    /\ Len(item) = 2
    /\ item[1].api_id = "I1" /\ item[1].typeLine = EXALTED
    /\ item[1].note = PriceNote(100, 1, "chaos")
    /\ item[1].league = League /\ item[1].updated_at = 1000
    /\ item[2].api_id = "I2" /\ item[2].typeLine = CHAOS
    /\ item[2].note = PriceNote(1, 100, "exa")
    /\ item[2].league = League /\ item[2].updated_at = 1001

\* The currency processor has run once, to its end, while I1 and I2 were
\* inside the relevance window.
ScenarioRun ==
    /\ ScenarioIngested
    /\ runs = 1 /\ pc = "idle" /\ outcome = "returned"
    /\ now - relevant < 1000

HasSummary(from, to, league, count, mean) ==
    \E r \in currency_summary :
        /\ r.from_currency = from /\ r.to_currency = to /\ r.league = league
        /\ r.count = count /\ r.mean = mean

\* C15: from the empty store, one public stash with I1 (Exalted Orb,
\* "~price 100 chaos", updated_at 1000) and I2 (Chaos Orb, "~price 1/100
\* exa", updated_at 1001) of league Standard is ingested and the currency
\* processor runs once: there are two sale rows, a summary row (Exalted Orb,
\* Chaos Orb, Standard, count 1, mean 100), a summary row (Chaos Orb,
\* Exalted Orb, Standard, count 1, mean 0.01), and I1's sale has
\* sale_amount_chaos = 100.
C15_EndToEnd ==
    ScenarioRun =>
        /\ Len(sale) = 2
        /\ HasSummary(EXALTED, CHAOS, League, 1, Rat(100, 1))
        /\ HasSummary(CHAOS, EXALTED, League, 1, Rat(1, 100))
        /\ \E k \in 1..Len(sale) :
               /\ sale[k].item_id = 1
               /\ sale[k].sale_amount_chaos = Rat(100, 1)

\* The scenario has run, and left I2's sale valued at 1 chaos besides.
C15_ScenarioDone ==
    /\ ScenarioRun
    /\ Cardinality(currency_summary) = 2
    /\ \E k \in 1..Len(sale) :
           /\ sale[k].item_id = 2
           /\ sale[k].sale_amount = Rat(1, 100)
           /\ sale[k].sale_amount_chaos = Rat(1, 1)

(***************************************************************************)
(* The Sale Extractor over a wider feed: a stash with or without a display *)
(* name, carrying a piece of gear "a", whose name changes when it is       *)
(* crafted and whose note may be a plain remark, and an Exalted Orb "b".   *)
(***************************************************************************)
GearItemOf(id, name, note) ==
    [ApiItemOf(id, "Vaal Regalia", note) EXCEPT !.category = FALSE,
                                                !.name = name]

ExtractPages ==
    {Page(sname, a \o b) :
        sname \in {NoNote, PlainNote},
        a \in {<<>>, <<GearItemOf("a", "Doom Shell", PlainNote)>>,
               <<GearItemOf("a", "Doom Shell", PriceNote(3, 1, "chaos"))>>,
               <<GearItemOf("a", "Grim Hide", PriceNote(3, 1, "chaos"))>>},
        b \in Maybe("b", EXALTED, {PriceNote(100, 1, "chaos")})}

NextExtract ==
    \/ ingests < MaxIngests /\ \E thing \in ExtractPages : InsertApiStash(thing)
    \/ \E d \in Delays : Tick(d)
    \/ StartRun
    \/ \E tie \in PipelineTieOrders : ProcessBlock(tie)

SpecExtract == Init /\ [][NextExtract]_vars

\* C16: for every joined row of a public stash that the driver hands to the
\* Sale Extractor, rows with a null stash name and rows whose note does not
\* begin with '~' included, _process_sale returns a sale id or null without
\* raising, and the remaining rows of the block are still processed: no run
\* ends with an exception.
C16_ExtractorNeverRaises == outcome # "raised"

\* C16 for the rows whose stash has a name: a block ends with an exception
\* only when a stash without a name carries an item whose note is a remark.
C16_NamedStashNeverRaises ==
    [][(pc = "block" /\ pc' = "idle" /\ outcome' = "raised") =>
           \E i \in 1..Len(item) :
               /\ ~Truthy(stash[item[i].stash_id].stash)
               /\ Truthy(item[i].note) /\ ~item[i].note.tilde]_vars

\* The item note's price and currency, else the stash name's.
EffectiveParse(it) ==
    LET item_parse == parse_note(it.note, actual_currencies)
        stash_parse == parse_note(stash[it.stash_id].stash, actual_currencies)
    IN  IF IsNone(item_parse.amt) THEN stash_parse ELSE item_parse

\* _process_sale returns a sale id for the row of it.
ReturnsSaleId(it) ==
    /\ (Truthy(it.note) /\ it.note.tilde) \/ stash[it.stash_id].stash.tilde
    /\ ~IsNone(EffectiveParse(it).amt)
    /\ ~RatIsZero(EffectiveParse(it).amt)

\* C20: after _process_sale has returned a sale id for an item, the sale
\* row's name, is_currency, sale_currency, sale_amount and item_updated_at
\* equal the values derived from the item's current category, name,
\* typeLine, note and updated_at, whether the row was inserted or updated.
C20_SaleMatchesItem ==
    PassCompleted =>
        \A k \in 1..Len(handed) :
            LET it == ItemRow(item, handed[k].id)
            IN  ReturnsSaleId(it) =>
                    \E j \in 1..Len(sale) :
                        /\ sale[j].item_id = it.id
                        /\ sale[j].name = SaleName(it)
                        /\ sale[j].is_currency = it.category
                        /\ sale[j].sale_currency = TheVal(EffectiveParse(it).cur)
                        /\ sale[j].sale_amount = EffectiveParse(it).amt
                        /\ sale[j].item_updated_at = it.updated_at

\* C20 without the name: the fields the update assigns.
C20_AssignedFieldsMatchItem ==
    PassCompleted =>
        \A k \in 1..Len(handed) :
            LET it == ItemRow(item, handed[k].id)
            IN  ReturnsSaleId(it) =>
                    \E j \in 1..Len(sale) :
                        /\ sale[j].item_id = it.id
                        /\ sale[j].is_currency = it.category
                        /\ sale[j].sale_currency = TheVal(EffectiveParse(it).cur)
                        /\ sale[j].sale_amount = EffectiveParse(it).amt
                        /\ sale[j].item_updated_at = it.updated_at

(***************************************************************************)
(* The driver in either mode, the ingester beside it.  In continuous mode  *)
(* a call runs pass after pass, followed here for MaxPasses of them.       *)
(***************************************************************************)
InitEitherMode ==
    /\ EmptyStore
    /\ DriverIdle
    /\ start_time = None
    /\ continuous \in BOOLEAN
    /\ recent = Some(DefaultRecent)

DriverPages ==
    {Page(PlainNote, a \o b) :
        a \in Maybe("a", EXALTED, {NoNote, PriceNote(100, 1, "chaos")}),
        b \in Maybe("b", CHROMATIC, {PriceNote(1, 5, "chaos")})}

NextDriver ==
    \/ ingests < MaxIngests /\ \E thing \in DriverPages : InsertApiStash(thing)
    \/ \E d \in Delays : Tick(d)
    \/ StartRun
    \/ NextPass
    \/ \E tie \in PipelineTieOrders : ProcessBlock(tie)

SpecDriver == InitEitherMode /\ [][NextDriver]_vars

\* The step that ends a pass: its last block is committed.
PassEnds ==
    /\ pc = "block"
    /\ pc' = "head" \/ (pc' = "idle" /\ outcome' = "returned")

\* The pass that ends has the last-sale id of the pass before it.
SameAsPreviousPass == passes > 1 /\ last_row' = prev

SleepsOneSecond == now' = now + 1

\* C18: in continuous mode, whenever a pass ends with the same last-sale id
\* as the previous pass (also when neither pass produced a sale), the driver
\* sleeps one second before starting the next pass; in single-shot mode it
\* returns after exactly one pass.
C18_SleepOrReturn ==
    [][PassEnds =>
           IF continuous
           THEN pc' = "head" /\ (SameAsPreviousPass => SleepsOneSecond)
           ELSE pc' = "idle" /\ passes = 1]_vars

\* C18 for the passes that produced a sale.
C18_SleepAfterSameSale ==
    [][PassEnds =>
           IF continuous
           THEN /\ pc' = "head"
                /\ (SameAsPreviousPass /\ ~IsNone(prev)) => SleepsOneSecond
           ELSE pc' = "idle" /\ passes = 1]_vars

\* A continuous driver has slept: the clock moved though no time passed
\* otherwise.
C18_HasSlept == continuous /\ ticks = 0 /\ now > Epoch /\ passes > 1

(***************************************************************************)
(* A crash in the middle of a block, and the run after it.  The store      *)
(* keeps what the earlier blocks committed and nothing of the block the    *)
(* process died in.  The feed is a stash without display name carrying up  *)
(* to four currency items, "c" without a note; nothing is ingested and no  *)
(* time passes once the driver has been started.                           *)
(***************************************************************************)
Crash ==
    /\ pc = "block"
    /\ pc' = "idle"
    /\ outcome' = "crashed"
    /\ cleanRuns' = 0 - 1
    /\ UNCHANGED <<now, tables, settings, actual_currencies, start, offset,
                   last_row, prev, passHistory, snap, ingests, runs, ticks,
                   call>>

CrashPages ==
    {Page(NoNote, a \o b \o c \o d) :
        a \in Maybe("a", EXALTED, {PriceNote(5, 1, "chrom")}),
        b \in Maybe("b", CHROMATIC, {PriceNote(1, 5, "chaos")}),
        c \in Maybe("c", CHAOS, {NoNote}),
        d \in Maybe("d", EXALTED, {PriceNote(90, 1, "chaos")})}

NextCrash ==
    \/ /\ runs = 0 /\ ingests < MaxIngests
       /\ \E thing \in CrashPages : InsertApiStash(thing)
    \/ runs = 0 /\ Tick(1)
    \/ StartRun
    \/ \E tie \in PipelineTieOrders : ProcessBlock(tie)
    \/ Crash

SpecCrash == Init /\ [][NextCrash]_vars

\* _currency_processor_single_pass(start) from the given offset on: the
\* tables an uninterrupted pass leaves.
RECURSIVE _currency_processor_single_pass(_, _, _, _, _, _, _, _, _, _)
_currency_processor_single_pass(d, last, off, st, it, from, clock, aliases, rec, tie) ==
    LET Done(acc) ==
            IF acc.count = block_size /\ ~acc.raised
            THEN _currency_processor_single_pass(
                     acc.d, acc.last_row, off + acc.count, st, it, from,
                     clock, aliases, rec, tie)
            ELSE acc.d
    IN  Done(BlockLoop([d |-> d, count |-> 0, last_row |-> last,
                        handed |-> <<>>, raised |-> FALSE],
                       it, _currency_query(st, it, from, block_size, off), 1,
                       clock, aliases, rec, tie))

\* The tables a run over the items leaves when it starts from empty sale and
\* summary tables and nothing interrupts it.
UninterruptedRun(tie) ==
    _currency_processor_single_pass(
        [sale |-> <<>>, summary |-> {}, contrib |-> <<>>], None, 0, stash,
        item, None, now, get_actual_currencies({}), recent, tie)

\* The first run crashed in a block and the run after it has returned.
RerunDone ==
    /\ runs = 2 /\ pc = "idle" /\ outcome = "returned"
    /\ cleanRuns = 0

SameRows(d) ==
    /\ NaturalSales(sale) = NaturalSales(d.sale)
    /\ NaturalSummaries(currency_summary) = NaturalSummaries(d.summary)

\* C19: when the process crashes in the middle of block k (the block's
\* writes rolled back, the earlier blocks committed) and the driver is run
\* again with start_time unset over the same items, the final sale and
\* currency_summary rows equal those of an uninterrupted run over the same
\* items.
C19_CrashThenRerun ==
    RerunDone => \E tie \in PipelineTieOrders : SameRows(UninterruptedRun(tie))

SaleItems(s) == {s[k].item_id : k \in 1..Len(s)}

\* C19 for the items that have a sale row alone.
C19_SameItemsSold ==
    RerunDone =>
        \E tie \in PipelineTieOrders :
            SaleItems(sale) = SaleItems(UninterruptedRun(tie).sale)

\* C19 for the stores in which every row has a note (no row is skipped by
\* the driver), sale_amount_chaos left aside.
C19_SameButChaosValue ==
    (RerunDone /\ \A i \in 1..Len(item) : Truthy(item[i].note)) =>
        \E tie \in PipelineTieOrders :
            LET Same(d) ==
                    /\ {[r EXCEPT !.sale_amount_chaos = None] :
                            r \in NaturalSales(sale)}
                         = {[r EXCEPT !.sale_amount_chaos = None] :
                                r \in NaturalSales(d.sale)}
                    /\ NaturalSummaries(currency_summary)
                         = NaturalSummaries(d.summary)
            IN  Same(UninterruptedRun(tie))

(***************************************************************************)
(* _update_currency_pricing on a store that already has the summary row of *)
(* the sale's bucket: Chaos Orbs on sale for Exalted Orbs, the row of      *)
(* (Chaos Orb, Exalted Orb) of some count and age, and the caching         *)
(* parameter `recent` unset, zero or 600 seconds.  Another league may have *)
(* a sale and a row of the same bucket.                                    *)
(***************************************************************************)
CacheSale(i, price) ==
    [StatsSale(i, [price |-> price, age |-> 0])
        EXCEPT !.name = CHAOS, !.sale_currency = EXALTED,
               !.sale_amount_chaos = None]

CacheItem(i, price) ==
    [StatsItem(i, [price |-> price, age |-> 0])
        EXCEPT !.typeLine = CHAOS,
               !.note = PriceNote(price[1], price[2], "exa")]

CachedRow(count, age) ==
    [EdgeRow(CHAOS, EXALTED, Rat(1, 80), 1)
        EXCEPT !.count = count, !.updated_at = StatsNow - age]

InitCache ==
    /\ DriverIdle
    /\ start_time = None
    /\ continuous = FALSE
    /\ recent \in {None, Some(0), Some(DefaultRecent)}
    /\ now = StatsNow
    /\ stash = <<[api_id |-> "s1", stash |-> PlainNote, public |-> TRUE,
                  created_at |-> Epoch, updated_at |-> Epoch]>>
    /\ \E n \in 0..2 : \E m \in 0..1 :
           /\ item = [i \in 1..(n + m) |->
                         IF i <= n THEN CacheItem(i, Rat(1, 100))
                         ELSE [CacheItem(i, Rat(1, 50))
                                  EXCEPT !.league = OtherLeague]]
           /\ sale = [i \in 1..(n + m) |->
                         CacheSale(i, IF i <= n THEN Rat(1, 100)
                                      ELSE Rat(1, 50))]
    /\ \E here \in {{}} \cup {{CachedRow(count, age)} :
                                  count \in {9, 10, 11},
                                  age \in {0, DefaultRecent, DefaultRecent + 1}} :
           \E there \in {{}, {[CachedRow(1, DefaultRecent + 1)
                                  EXCEPT !.league = OtherLeague,
                                         !.mean = Rat(1, 70)]}} :
               currency_summary = here \cup there
    /\ contrib = <<>>

\* _update_currency_pricing(name, currency, league, price, sale_time,
\* is_currency) is called on the store.
UpdateCurrencyPricing(name, currency, league, price, is_currency, tie) ==
    /\ call.fn = "none"
    /\ LET Called(r) ==
               /\ currency_summary' = r.d.summary
               /\ contrib' = r.d.contrib
               /\ call' = [fn |-> "_update_currency_pricing", name |-> name,
                           currency |-> currency, league |-> league,
                           price |-> price, is_currency |-> is_currency,
                           tie |-> tie, before |-> currency_summary,
                           value |-> r.value, raised |-> r.raised]
       IN  Called(_update_currency_pricing(
                      [sale |-> sale, summary |-> currency_summary,
                       contrib |-> contrib],
                      item, now, recent, tie, name, currency, league, price,
                      now, is_currency))
    /\ UNCHANGED <<now, stash, item, sale, settings, driver, passHistory,
                   outcome, snap, cleanRuns, ingests, runs, ticks>>

NextCache ==
    \E price \in {Rat(1, 100), Rat(2, 1)} : \E is_currency \in BOOLEAN :
        \E tie \in PipelineTieOrders :
            UpdateCurrencyPricing(CHAOS, EXALTED, League, price, is_currency,
                                  tie)

SpecCache == InitCache /\ [][NextCache]_vars

\* The row of the call's bucket as it was before the call, when the call
\* found it fresh: recent set, count >= 10, updated_at >= now - recent.
FreshBefore ==
    /\ call.fn = "_update_currency_pricing" /\ call.is_currency
    /\ ~IsNone(recent) /\ TheVal(recent) # 0
    /\ \E r \in call.before :
           /\ r.from_currency = call.name /\ r.to_currency = call.currency
           /\ r.league = call.league
           /\ r.count >= 10
           /\ r.updated_at >= now - TheVal(recent)

EmbeddedNote(n, d, c) == [PriceNote(n, d, c) EXCEPT !.tilde = FALSE]

SaleItemNotes ==
    {NoNote, PlainNote, PriceNote(3, 1, "chaos"), PriceNote(0, 1, "chaos"),
     PriceNote(1, 5, "chaos"), PriceNote(3, 1, "chrom"),
     PriceNote(3, 1, "zorkmid"),
     BadAmountNote("chaos"), EmbeddedNote(3, 1, "chaos")}

SaleStashNames ==
    {NoNote, PlainNote, PriceNote(7, 1, "chaos"), PriceNote(0, 1, "chaos")}

InitSale ==
    /\ DriverIdle
    /\ start_time = None
    /\ continuous = FALSE
    /\ recent = Some(DefaultRecent)
    /\ now = StatsNow
    /\ \E name \in SaleStashNames :
           stash = <<[api_id |-> "s1", stash |-> name, public |-> TRUE,
                      created_at |-> Epoch, updated_at |-> Epoch]>>
    /\ \E note \in SaleItemNotes :
           item = <<[StatsItem(1, [price |-> Rat(9, 1), age |-> 0])
                        EXCEPT !.note = note]>>
    /\ sale \in {<<>>, <<StatsSale(1, [price |-> Rat(9, 1), age |-> 2])>>}
    /\ currency_summary = {}
    /\ contrib = <<>>

\* _process_sale(row) is called on the joined row of item i.
ProcessSale(i, tie) ==
    /\ call.fn = "none"
    /\ LET Called(r) ==
               /\ sale' = r.d.sale
               /\ currency_summary' = r.d.summary
               /\ contrib' = r.d.contrib
               /\ call' = [fn |-> "_process_sale", item |-> i, tie |-> tie,
                           before |-> sale, id |-> r.id, raised |-> r.raised]
       IN  Called(_process_sale(
                      [sale |-> sale, summary |-> currency_summary,
                       contrib |-> contrib],
                      item,
                      [Item |-> ItemRow(item, i),
                       stash |-> stash[item[i].stash_id].stash],
                      now, actual_currencies, recent, tie))
    /\ UNCHANGED <<now, stash, item, settings, driver, passHistory, outcome,
                   snap, cleanRuns, ingests, runs, ticks>>

NextSale ==
    \E i \in 1..Len(item) : \E tie \in PipelineTieOrders : ProcessSale(i, tie)

SpecSale == InitSale /\ [][NextSale]_vars

\* The row of the call begins a sale: its note or its stash name begins
\* with '~', and the call has returned.
EligibleCall ==
    /\ call.fn = "_process_sale" /\ ~call.raised
    /\ \/ Truthy(item[call.item].note) /\ item[call.item].note.tilde
       \/ stash[item[call.item].stash_id].stash.tilde

NoteParse == parse_note(item[call.item].note, actual_currencies)

StashParse ==
    parse_note(stash[item[call.item].stash_id].stash, actual_currencies)

\* C22: in _process_sale the price parsed from item.note is the one used
\* whenever that parse is non-null, also when it is zero; the price parsed
\* from the stash name is used only when the item note yields null; when the
\* chosen price is null or zero no sale row is inserted or modified.
C22_PricePrecedence ==
    EligibleCall =>
        LET used == IF ~IsNone(NoteParse.amt) THEN NoteParse ELSE StashParse
        IN  IF IsNone(used.amt) \/ RatIsZero(used.amt)
            THEN /\ call.id = None
                 /\ sale = call.before
                 /\ currency_summary = {}
            ELSE /\ call.id # None
                 /\ sale[TheVal(call.id)].item_id = call.item
                 /\ sale[TheVal(call.id)].sale_amount = used.amt
                 /\ sale[TheVal(call.id)].sale_currency = TheVal(used.cur)

\* The note's zero price was used though the stash names a price, and the
\* sale row of the earlier price stays as it was.
C22_ZeroNoteShadowsStash ==
    /\ EligibleCall
    /\ NoteParse.amt = Rat(0, 1)
    /\ StashParse.amt = Rat(7, 1)
    /\ call.id = None
    /\ Len(sale) = 1 /\ sale = call.before

(***************************************************************************)
(* A currency the static tables do not know: "p" is a My Precious on sale  *)
(* for Chaos Orbs, "q" an Exalted Orb priced in "my-precious"; "a" stands  *)
(* between them, so that q is read in the block after p's.  In single-shot *)
(* mode every call of the driver is one pass.                              *)
(***************************************************************************)
AliasPages ==
    {Page(PlainNote, p \o a \o q) :
        p \in Maybe("p", PRECIOUS, {PriceNote(2, 1, "chaos")}),
        a \in Maybe("a", EXALTED, {PriceNote(100, 1, "chaos")}),
        q \in Maybe("q", EXALTED, {PriceNote(1, 1, "my-precious")})}

NextAlias ==
    \/ ingests < MaxIngests /\ \E thing \in AliasPages : InsertApiStash(thing)
    \/ \E d \in Delays : Tick(d)
    \/ StartRun
    \/ \E tie \in PipelineTieOrders : ProcessBlock(tie)

SpecAlias == Init /\ [][NextAlias]_vars

\* The pass began with a summary row from My Precious.
KnownAtPassStart == \E r \in snap.summary : r.from_currency = PRECIOUS

PricedInPrecious(it) == it.note = PriceNote(1, 1, "my-precious")

\* C23: the alias map is assigned only at the start of a pass.  The summary
\* row of a currency first written while a row of pass k is processed does
\* not change what parse_note returns for the later rows of pass k (the rows
\* priced in it still yield no sale), and its from_currency is resolved from
\* pass k+1 on (the rows priced in it, when handed over, yield a sale in
\* that currency).
C23_AliasesOfPassStart ==
    /\ pc = "block" =>
           actual_currencies = get_actual_currencies(
               {[from_currency |-> r.from_currency] : r \in snap.summary})
    /\ (pc = "idle" /\ outcome = "returned") =>
           IF KnownAtPassStart
           THEN \A k \in 1..Len(handed) :
                    PricedInPrecious(item[handed[k].id]) =>
                        \E j \in 1..Len(sale) :
                            /\ sale[j].item_id = handed[k].id
                            /\ sale[j].sale_currency = PRECIOUS
           ELSE \A j \in 1..Len(sale) : ~PricedInPrecious(item[sale[j].item_id])

\* Pass k wrote the row of My Precious and left q, read after it, without a
\* sale; pass k+1 has given q its sale.
C23_ResolvedInNextPass ==
    /\ pc = "idle" /\ outcome = "returned" /\ runs = 2
    /\ KnownAtPassStart
    /\ \A o \in snap.sale : ~PricedInPrecious(item[o.item_id])
    /\ \E j \in 1..Len(sale) :
           /\ PricedInPrecious(item[sale[j].item_id])
           /\ sale[j].sale_currency = PRECIOUS
           /\ \E o \in snap.sale :
                  /\ o.name = PRECIOUS
                  /\ item[o.item_id].updated_at <= item[sale[j].item_id].updated_at

\* The store of the call without the rows of other leagues than the call's:
\* the sales of its items, and the summary rows as they were before the call.
OwnLeagueSales ==
    SelectSeq(sale, LAMBDA s : item[s.item_id].league = call.league)

OwnLeagueRows(summary) == {r \in summary : r.league = call.league}

\* What the call would have left and returned on that store.
OnOwnLeagueAlone ==
    _update_currency_pricing(
        [sale |-> OwnLeagueSales, summary |-> OwnLeagueRows(call.before),
         contrib |-> <<>>],
        item, now, recent, call.tie, call.name, call.currency, call.league,
        call.price, now, call.is_currency)

\* C24: prices never cross leagues.  For two stores that agree on every
\* sale, item and summary row of league L and differ in rows of other
\* leagues only, find_value_of(name, L, p) returns the same and the summary
\* statistics computed for a bucket of L are the same: what a call leaves in
\* the rows of L and what it returns are what it leaves and returns on the
\* store that holds the rows of L alone.
C24_LeagueIsolation ==
    call.fn = "_update_currency_pricing" =>
        LET Same(r) ==
                /\ call.value = r.value
                /\ call.raised = r.raised
                /\ OwnLeagueRows(currency_summary) = r.d.summary
                /\ currency_summary \ OwnLeagueRows(currency_summary)
                     = call.before \ OwnLeagueRows(call.before)
        IN  Same(OnOwnLeagueAlone)

\* The other league has a sale and a row of the bucket, the call's league
\* has sales and no row: the row written has the mean of the league's own
\* sales, and the value is the price over it.
C24_OtherLeaguePresent ==
    /\ call.fn = "_update_currency_pricing" /\ call.is_currency
    /\ \E s \in 1..Len(sale) : item[sale[s].item_id].league = OtherLeague
    /\ \E r \in call.before : r.league = OtherLeague
    /\ OwnLeagueRows(call.before) = {}
    /\ \E r \in currency_summary :
           r.league = League /\ r.mean = Rat(1, 100) /\ r.count = 2
    /\ call.price = Rat(2, 1) /\ call.value = Rat(200, 1)

SameKey(r, o) ==
    /\ r.from_currency = o.from_currency
    /\ r.to_currency = o.to_currency
    /\ r.league = o.league

\* C25: after any sequence of ingests and passes of one processor,
\* currency_summary holds at most one row per (from_currency, to_currency,
\* league); a row is written only for a sale with is_currency = true, by the
\* Summary Updater; an update keeps the row's created_at.
C25_SummaryRows ==
    [][/\ \A r \in currency_summary' : \A o \in currency_summary' :
              SameKey(r, o) => r = o
       /\ \A r \in currency_summary' \ currency_summary :
              \E k \in 1..Len(sale') :
                  /\ sale'[k].is_currency
                  /\ sale'[k].name = r.from_currency
                  /\ sale'[k].sale_currency = r.to_currency
                  /\ item[sale'[k].item_id].league = r.league
       /\ \A o \in currency_summary :
              \E r \in currency_summary' :
                  SameKey(r, o) /\ r.created_at = o.created_at]_vars

\* A row has been updated after it was created, and the sale of a piece of
\* gear has no row.
C25_RowUpdated ==
    /\ \E r \in currency_summary : r.created_at < r.updated_at
    /\ \E k \in 1..Len(sale) :
           /\ ~sale[k].is_currency
           /\ \A r \in currency_summary : r.from_currency # sale[k].name

\* The price the call chose: the note's, else the stash name's.
ChosenParse == IF ~IsNone(NoteParse.amt) THEN NoteParse ELSE StashParse

\* The sale row the item had before the call was priced otherwise than the
\* item is now, had a chaos value, and is after the call as it was.
EarlierValueSurvives ==
    \E k \in 1..Len(call.before) :
        /\ call.before[k].item_id = call.item
        /\ call.before[k].sale_amount # ChosenParse.amt
        /\ ~IsNone(call.before[k].sale_amount_chaos)
        /\ sale[k] = call.before[k]

ValuedAtExtraction ==
    call.id # None =>
        LET s == sale[TheVal(call.id)]
        IN  s.sale_amount_chaos =
                find_value_of(currency_summary, s.sale_currency,
                              item[s.item_id].league, s.sale_amount, call.tie)

\* C26: after _process_sale has returned a sale id for an item, the sale's
\* sale_amount_chaos equals find_value_of(sale_currency, league,
\* sale_amount) on the summaries as they stand after the sale's own summary
\* update, null when that valuation is null; and a chaos value computed for
\* an earlier price of the item never survives a later re-processing of the
\* item.
C26_ChaosValueIsCurrent ==
    (call.fn = "_process_sale" /\ ~call.raised) =>
        /\ ValuedAtExtraction
        /\ ~EarlierValueSurvives

\* C26 for the calls that return a sale id.
C26_ValuedWhenSold ==
    (call.fn = "_process_sale" /\ ~call.raised) =>
        /\ ValuedAtExtraction
        /\ call.id # None => ~EarlierValueSurvives

\* A sale valued at 9 chaos before the call is priced in Chromatic Orbs by
\* it, which have no known value: the chaos value is null after the call.
C26_EarlierValueReplaced ==
    /\ call.fn = "_process_sale" /\ call.id # None
    /\ \E k \in 1..Len(call.before) :
           /\ call.before[k].sale_amount_chaos = Rat(9, 1)
           /\ sale[k].sale_currency = CHROMATIC
           /\ sale[k].sale_amount_chaos = None

(***************************************************************************)
(* The feed: PoeApi.stash_generator over the stashes of a page, read by    *)
(* sample_api_reader.pull_data, which inserts each stash it is given.  A   *)
(* stash of the feed may lack any of its required fields; a field that is  *)
(* absent and a field that is null read alike (self._data.get(field,       *)
(* None)).                                                                 *)
(***************************************************************************)
MaxStashes == 3

ApiStashRequired == <<"id", "stashType", "public">>

\* PoeApiData.validate: raises ValueError at the first required field that
\* is None.
validate(data, required_fields) ==
    IF \E k \in 1..Len(required_fields) : IsNone(data[required_fields[k]])
    THEN Raised
    ELSE None

\* stash_generator is a staticmethod: the name self of its except clause is
\* bound nowhere, so that the handler of the ValueError raises NameError
\* before its continue, and the generator ends there.
RECURSIVE stash_generator(_, _, _)
stash_generator(data, k, yielded) ==
    IF k > Len(data) THEN [yielded |-> yielded, raised |-> FALSE]
    ELSE IF validate(data[k], ApiStashRequired) = Raised
         THEN [yielded |-> yielded, raised |-> TRUE]
         ELSE stash_generator(data, k + 1, Append(yielded, data[k]))

\* The stash at place k of a page, with the required fields it carries.
FeedStash(k, has) ==
    [id |-> IF has[1] THEN Some(<<"s1", "s2", "s3", "s4">>[k]) ELSE None,
     stashType |-> IF has[2] THEN Some("PremiumStash") ELSE None,
     public |-> IF has[3] THEN Some(TRUE) ELSE None,
     stash |-> PlainNote, items |-> <<>>]

FeedPages ==
    UNION {{[k \in 1..n |-> FeedStash(k, h[k])] :
               h \in [1..n -> [1..3 -> BOOLEAN]]} : n \in 0..MaxStashes}

\* The stash as insert_api_stash reads it.
ApiStashOf(s) ==
    [id |-> TheVal(s.id), stash |-> s.stash, public |-> TheVal(s.public),
     items |-> s.items]

RECURSIVE InsertStashes(_, _, _, _)
InsertStashes(d, clock, things, k) ==
    IF k > Len(things) THEN d
    ELSE LET Rest(r) == InsertStashes(r, clock, things, k + 1)
         IN  Rest(insert_api_stash(d.stash, d.item, clock,
                                   ApiStashOf(things[k]), TRUE, FALSE))

\* One turn of pull_data's loop: the stashes of a page, as the generator
\* yields them, are inserted; the generator's exception ends the reader.
PullPage(data) ==
    /\ call.fn = "none"
    /\ LET Pulled(g) ==
               LET Stored(d) ==
                       /\ stash' = d.stash
                       /\ item' = d.item
               IN  /\ Stored(InsertStashes([stash |-> stash, item |-> item],
                                           now, g.yielded, 1))
                   /\ call' = [fn |-> "stash_generator", data |-> data,
                               yielded |-> g.yielded, raised |-> g.raised]
       IN  Pulled(stash_generator(data, 1, <<>>))
    /\ ingests' = ingests + 1
    /\ UNCHANGED <<now, sale, currency_summary, contrib, settings, driver,
                   passHistory, outcome, snap, cleanRuns, runs, ticks>>

NextFeed == \E data \in FeedPages : PullPage(data)

SpecFeed == Init /\ [][NextFeed]_vars

\* The stash carries every required field.
CarriesRequired(s) ==
    ~IsNone(s.id) /\ ~IsNone(s.stashType) /\ ~IsNone(s.public)

\* The stashes of the recorded tables, by api id.
StoredStashIds == {stash[k].api_id : k \in 1..Len(stash)}

\* C27: stash_generator yields every stash of a page that carries all the
\* required fields (id, stashType, public) and skips, without raising, each
\* stash that lacks one: an invalid stash does not stop the stashes after it
\* from being yielded.
C27_ValidStashesYielded ==
    call.fn = "stash_generator" =>
        /\ ~call.raised
        /\ call.yielded = SelectSeq(call.data, CarriesRequired)
        /\ \A k \in 1..Len(call.data) :
               CarriesRequired(call.data[k]) =>
                   TheVal(call.data[k].id) \in StoredStashIds

\* What the generator does: it yields the stashes before the first one that
\* lacks a required field, and raises at that one.
C27_YieldedUpToFirstInvalid ==
    call.fn = "stash_generator" =>
        LET bad == {k \in 1..Len(call.data) : ~CarriesRequired(call.data[k])}
        IN  /\ call.raised <=> bad # {}
            /\ call.yielded =
                   IF bad = {} THEN call.data
                   ELSE SubSeq(call.data, 1,
                               (CHOOSE k \in bad : \A j \in bad : k <= j) - 1)

(***************************************************************************)
(* The ingester beside a running pass.  The store holds two public stashes *)
(* of priced currency items, recorded before the driver is started with    *)
(* start_time unset; one stash is ingested again, at any moment, with any  *)
(* of its items, and the driver is run twice.                              *)
(***************************************************************************)
StashOf(sid, items) ==
    [id |-> sid, stash |-> PlainNote, public |-> TRUE, items |-> items]

FirstStashPages ==
    {StashOf("s1", a \o b) :
        a \in Maybe("a", EXALTED, {PriceNote(100, 1, "chaos")}),
        b \in Maybe("b", CHROMATIC, {PriceNote(1, 5, "chaos")})}

SecondStashPages ==
    {StashOf("s2", c \o d) :
        c \in Maybe("c", CHROMATIC, {PriceNote(1, 5, "chaos")}),
        d \in Maybe("d", EXALTED, {PriceNote(90, 1, "chaos")})}

InitReingest ==
    /\ DriverIdle
    /\ start_time = None
    /\ continuous = FALSE
    /\ recent = Some(DefaultRecent)
    /\ now = Epoch
    /\ \E p \in FirstStashPages : \E q \in SecondStashPages :
           LET Both(r) == stash = r.stash /\ item = r.item
               Second(r) == Both(insert_api_stash(r.stash, r.item, Epoch, q,
                                                  TRUE, FALSE))
           IN  Second(insert_api_stash(<<>>, <<>>, Epoch, p, TRUE, FALSE))
    /\ sale = <<>>
    /\ currency_summary = {}
    /\ contrib = <<>>

\* pull_data inserts a stash the store already has.  The call records the
\* run it fell in, whether it fell between two blocks of a pass, and the
\* rows that matched the query of the pass.
Reingest(thing) ==
    /\ ingests = 0
    /\ LET r == insert_api_stash(stash, item, now, thing, TRUE, FALSE)
       IN  /\ stash' = r.stash
           /\ item' = r.item
    /\ ingests' = ingests + 1
    /\ stable' = FALSE
    /\ cleanRuns' = IF pc = "idle" THEN 0 ELSE 0 - 1
    /\ call' = [fn |-> "insert_api_stash", stash |-> thing.id,
                reingest |-> TRUE,
                carried |-> {[id |-> thing.items[k].id,
                              valid |-> thing.items[k].valid] :
                                 k \in 1..Len(thing.items)},
                run |-> runs,
                between |-> pc = "block" /\ offset > 0,
                matched |-> {i \in 1..Len(item) :
                                MatchesQuery(stash, item[i], start)}]
    /\ UNCHANGED <<now, sale, currency_summary, contrib, settings, driver,
                   handed, readRows, lastLen, passT, passes, outcome, snap, runs,
                   ticks>>

NextReingest ==
    \/ \E thing \in FirstStashPages \cup SecondStashPages : Reingest(thing)
    \/ Tick(1)
    \/ StartRun
    \/ \E tie \in PipelineTieOrders : ProcessBlock(tie)

SpecReingest == InitReingest /\ [][NextReingest]_vars

SoldItems == {sale[k].item_id : k \in 1..Len(sale)}

\* The second run has returned, and a stash was ingested again between two
\* blocks of the first.
AfterReingestBetweenBlocks ==
    /\ call.fn = "insert_api_stash" /\ call.run = 1 /\ call.between
    /\ runs = 2 /\ pc = "idle"

\* C28: when the ingester re-ingests stashes between two blocks of a running
\* pass, every item that matched the query of the pass when the pass began
\* and was not itself re-ingested is handed to _process_sale, in that pass
\* or in the next pass started with start_time unset.  Every item of the
\* store carries a price, so that an item has a sale row exactly when it was
\* handed to _process_sale.
C28_ReingestLosesNoItem ==
    AfterReingestBetweenBlocks =>
        \A i \in call.matched :
            item[i].api_id \notin CarriedIds => i \in SoldItems

\* Two runs during which nothing was ingested: every item has its sale.
C28_QuietRunsHandAll ==
    (call.fn = "none" /\ runs = 2 /\ pc = "idle") =>
        \A i \in 1..Len(item) : i \in SoldItems

(***************************************************************************)
(* The continuous driver on a store nothing is ingested into any more: one *)
(* public stash, with or without display name, of up to three currency     *)
(* items recorded at one time, "b" and "d" with a price or without a note, *)
(* "c" without a note.  The driver's loop never returns of itself (while   *)
(* True, currency.py:503-526): each block and each pass it has begun is    *)
(* followed by the next, which is the fairness stated.  The clock of an    *)
(* idle driver is followed for MaxSleeps seconds, after which its pauses   *)
(* take no time.                                                           *)
(***************************************************************************)
MaxSleeps == 2

LivePages ==
    {Page(name, b \o c \o d) :
        name \in {NoNote, PlainNote},
        b \in Maybe("b", CHROMATIC, {NoNote, PriceNote(1, 5, "chaos")}),
        c \in Maybe("c", CHAOS, {NoNote}),
        d \in Maybe("d", EXALTED, {NoNote, PriceNote(90, 1, "chaos")})}

InitLive ==
    /\ DriverIdle
    /\ start_time = None
    /\ continuous = TRUE
    /\ recent = Some(DefaultRecent)
    /\ now = Epoch
    /\ \E thing \in LivePages :
           LET Stored(r) == stash = r.stash /\ item = r.item
           IN  Stored(insert_api_stash(<<>>, <<>>, Epoch, thing, TRUE, FALSE))
    /\ sale = <<>>
    /\ currency_summary = {}
    /\ contrib = <<>>

\* Continuous mode: the next pass begins, whatever the number of passes
\* before it.
NextPassAgain ==
    /\ pc = "head"
    /\ passes' = IF passes < MaxPasses THEN passes + 1 ELSE passes
    /\ PassHead
    /\ UNCHANGED <<now, tables, settings, prev, outcome, snap, cleanRuns,
                   ingests, runs, ticks, call>>

RunBlock ==
    \E tie \in PipelineTieOrders : ProcessBlockUntil(tie, Epoch + MaxSleeps)

\* WF_vars(RunBlock), with ENABLED <<RunBlock>>_vars written out: a block
\* can be run, and changes the state, exactly when pc = "block".
BlockFairness == []<>(pc # "block") \/ []<><<RunBlock>>_vars

NextLive ==
    \/ StartRun
    \/ NextPassAgain
    \/ RunBlock

SpecLive ==
    /\ InitLive
    /\ [][NextLive]_vars
    /\ WF_vars(StartRun)
    /\ WF_vars(NextPassAgain)
    /\ BlockFairness

\* The items of public stashes whose effective note is a positive price.
PricedItems ==
    {i \in 1..Len(item) :
        stash[item[i].stash_id].public /\ ReturnsSaleId(item[i])}

\* C29: in continuous mode with no further ingest, every item of a public
\* stash whose effective note parses to a positive price eventually has a
\* sale row, whatever the number of items sharing one updated_at value and
\* whatever the number of rows without note and stash name.
C29_PricedEventuallySold == <>(PricedItems \subseteq SoldItems)

\* C29 for the stashes with a display name, which have no row without note
\* and stash name.
C29_NamedEventuallySold ==
    <>((\A k \in 1..Len(stash) : Truthy(stash[k].stash)) =>
           PricedItems \subseteq SoldItems)

\* Three priced or named rows of one updated_at, more than a block, are all
\* sold.
C29_BlockAndMoreSold ==
    /\ Len(item) = 3
    /\ \A i \in 1..Len(item) : item[i].updated_at = Epoch
    /\ Cardinality(PricedItems) = 2
    /\ PricedItems \subseteq SoldItems

FourBelowZeroSales == [i \in 1..4 |-> StatsSale(i, FourBelowZero[i])]

\* The rejection pass applies to the bucket of the last call.
RejectionApplies == Len(CallSamples) > 3 /\ LargeStddev(FirstStats.ms)

\* C30: every currency_summary row written has count >= 1 and weight > 0:
\* the computation writes nothing for an empty bucket, and the single
\* outlier-rejection pass never removes every sample of a bucket.
\* Four sales at one price below zero, whose deviation of 0 exceeds half
\* their mean, are all kept.
C30_RowsHaveSamples ==
    /\ \A r \in currency_summary :
           r.count >= 1 /\ RatLess(Rat(0, 1), r.weight)
    /\ call.fn = "_update_currency_summary" =>
           /\ ~call.raised
           /\ Len(CallSamples) = 0 => currency_summary = {}
           /\ RejectionApplies =>
                  /\ WithinTwoStddev # <<>>
                  /\ TheVal(CallRow).count = Len(WithinTwoStddev)
           /\ sale = FourBelowZeroSales =>
                  RejectionApplies /\ TheVal(CallRow).count = 4

\* The rejection pass has removed samples of a bucket and left others, of
\* which the row is written.
C30_SomeRejectedSomeKept ==
    /\ call.fn = "_update_currency_summary"
    /\ RejectionApplies
    /\ Len(WithinTwoStddev) < Len(CallSamples)
    /\ Len(sale) <= MaxSamples
    /\ ~IsNone(CallRow)
    /\ TheVal(CallRow).count = Len(WithinTwoStddev)
=============================================================================
